---- MODULE Spec2Model ----
(***************************************************************************)
(* Verification model of the bebek-ai backend: the chat service (document  *)
(* store bookkeeping, streaming relay), the long-running-operation poller, *)
(* FAL video generation and the two-step face swap.                        *)
(***************************************************************************)
EXTENDS Integers, Sequences, FiniteSets, TLC

(***************************************************************************)
(* Bounds of the model.                                                    *)
(***************************************************************************)
\* HTTP requests accepted in one behaviour of the chat specifications.
MaxRequests == 2
\* Lines the provider's stream delivers before it ends or fails.
MaxEvents == 2

(***************************************************************************)
(* Text: a string is a sequence of one-character strings; " " is the only  *)
(* whitespace character of the alphabet.                                   *)
(***************************************************************************)
RECURSIVE TrimLeft(_)
TrimLeft(t) ==
  IF t = <<>> THEN t
  ELSE IF Head(t) = " " THEN TrimLeft(Tail(t)) ELSE t

RECURSIVE TrimRight(_)
TrimRight(t) ==
  IF t = <<>> THEN t
  ELSE IF t[Len(t)] = " " THEN TrimRight(SubSeq(t, 1, Len(t) - 1)) ELSE t

\* String.prototype.trim
Trim(t) == TrimRight(TrimLeft(t))

\* String.prototype.startsWith
StartsWith(t, prefix) ==
  /\ Len(prefix) <= Len(t)
  /\ SubSeq(t, 1, Len(prefix)) = prefix

\* String.prototype.slice(n)
SliceFrom(t, n) == SubSeq(t, n + 1, Len(t))

RECURSIVE JoinParts(_)
\* parts.map(part => part?.text || '').join('')
JoinParts(parts) ==
  IF parts = <<>> THEN <<>> ELSE Head(parts) \o JoinParts(Tail(parts))

(***************************************************************************)
(* chatService.ts: refusal of out-of-scope requests.  A message is a       *)
(* sequence of words; String.includes is the containment relation below.   *)
(***************************************************************************)
COACH_REFUSAL_MESSAGE == <<"R">>

disallowedFileTypes == {"pdf", "doc", "docx", "word", "ppt", "pptx", "powerpoint"}
\* the verbs and targets with non-ASCII letters are left out: no word of the
\* model's vocabulary contains them
createVerbs == {"generate", "create", "yap", "tasarla", "yaz"}
targets == {"resim", "image", "logo", "video", "kod", "code", "script",
            "website", "uygulama", "app"}

\* toLowerCase on the words of the vocabulary
ToLower(w) == CASE w = "PDF" -> "pdf" [] w = "Create" -> "create" [] OTHER -> w

\* word.includes(needle) for the words of the vocabulary
WordIncludes(w, needle) ==
  \/ w = needle
  \/ <<w, needle>> \in {<<"apple", "app">>, <<"yapi", "yap">>, <<"docx", "doc">>}

shouldRefuseCoachRequest(message) ==
  LET lower == [i \in 1..Len(message) |-> ToLower(message[i])]
      includes(needle) == \E i \in 1..Len(lower) : WordIncludes(lower[i], needle)
      hasCreateVerb == \E verb \in createVerbs : includes(verb)
      hasTarget == \E target \in targets : includes(target)
  IN IF lower = <<>> THEN FALSE
     ELSE IF \E type \in disallowedFileTypes : includes(type) THEN TRUE
     ELSE hasCreateVerb /\ hasTarget

(***************************************************************************)
(* geminiService.ts: candidate text and the delta rule of the stream.      *)
(***************************************************************************)
\* mutant: the candidate text is not trimmed
extractCandidateText_NoTrim(candidate) ==
  IF Len(candidate) = 0 THEN <<>> ELSE JoinParts(candidate)

\* a candidate is the sequence of the texts of its parts
extractCandidateText(candidate) ==
  IF Len(candidate) = 0 THEN <<>> ELSE Trim(JoinParts(candidate))

\* handleLine, after JSON.parse: the delta a candidate text produces
StreamDelta(fullText, candidateText) ==
  IF fullText # <<>> /\ StartsWith(candidateText, fullText)
  THEN SliceFrom(candidateText, Len(fullText))
  ELSE candidateText

\* resolve(fullText.trim())
StreamResolve(fullText) == Trim(fullText)

\* generateCoachResponse: parts[0].text.trim()
CoachReplyText(raw) == Trim(raw)

(***************************************************************************)
(* The chat service: store, requests in flight, events on the websocket.   *)
(***************************************************************************)
Procs == {"p1", "p2"}
Users == {"u1", "u2"}
\* ids the store hands out for new chat_sessions documents, in this order
AutoIds == <<"s1", "s2">>
\* a session id a client made up
ForeignId == "x"
SessionIds == {AutoIds[i] : i \in 1..Len(AutoIds)} \cup {ForeignId}
NoSession == "none"
BlankId == " "
NoDoc == [exists |-> FALSE]
NoUser == "undefined"
NoTitle == <<"undefined">>
\* a field a payload does not carry
Absent == <<"absent">>
NoError == "none"
NoImage == [dataIsString |-> FALSE, mimeIsString |-> FALSE, mime |-> "none"]
NoResp == [status |-> 0]

VARIABLES
  sessions,   \* chat_sessions: id -> document or NoDoc
  messages,   \* chat_messages, in the order of their created_at
  usersInfo,  \* users_info: the user ids that have a document
  nextId,     \* the next uuid
  nextAuto,   \* index in AutoIds of the next chat_sessions id
  reqCount,   \* requests accepted so far
  pc,         \* each request's position
  req,        \* each request's inputs
  loc,        \* each request's local variables
  events,     \* the 'chat:stream' events sent for each request's run
  oplog,      \* each request's store writes and provider calls, in order
  resp,       \* each request's HTTP response
  poll,       \* pollLongRunningOperation
  vid,        \* generateStyledVideoWithVeo (FAL)
  swp,        \* wedding / couple face swap
  storageObjects,   \* the paths of the objects in the storage bucket
  generatedPhotos,  \* the documents of users/{userId}/generatedPhotos
  nextGenId,        \* the next randomUUID of the /styles routes
  sty,              \* the request of a /styles route
  sse               \* the reader of the provider's event stream

chatStore == <<sessions, messages, usersInfo, nextId, nextAuto>>
chatVars == <<sessions, messages, usersInfo, nextId, nextAuto, reqCount, pc,
          req,
              loc, events, oplog, resp>>
vars == <<sessions, messages, usersInfo, nextId, nextAuto, reqCount, pc,
          req,
          loc, events, oplog, resp, poll, vid, swp,
          storageObjects, generatedPhotos, nextGenId, sty, sse>>

styleVars == <<storageObjects, generatedPhotos, nextGenId, sty>>

NoReq == [kind |-> "none", user |-> NoUser, sessionId |-> NoSession,
          message |-> <<>>, stream |-> FALSE, image |-> NoImage,
          title |-> <<>>]

LocInit == [sessionId |-> NoSession, userMsgId |-> 0, asstId |-> 0,
            reply |-> <<>>, sentAny |-> FALSE, latestText |-> <<>>,
            fullText |-> <<>>, nEvents |-> 0, phase |-> "none",
            persist |-> <<>>, history |-> <<>>, snapshot |-> {},
            received |-> <<>>, line |-> [kind |-> "none", candidate |-> <<>>],
            historyIds |-> <<>>, contents |-> <<>>]

ChatInit ==
  /\ sessions = [s \in SessionIds |-> NoDoc]
  /\ messages = <<>>
  /\ usersInfo = {}
  /\ nextId = 1
  /\ nextAuto = 1
  /\ reqCount = 0
  /\ pc = [p \in Procs |-> "idle"]
  /\ req = [p \in Procs |-> NoReq]
  /\ loc = [p \in Procs |-> LocInit]
  /\ events = [p \in Procs |-> <<>>]
  /\ oplog = [p \in Procs |-> <<>>]
  /\ resp = [p \in Procs |-> NoResp]

\* the ids of existing session documents
ExistingIds == {s \in SessionIds : sessions[s] # NoDoc}

(***************************************************************************)
(* Small helpers of the request processes.                                 *)
(***************************************************************************)
\* websocket.sendToUser(user.id, 'chat:stream', {chatId, messageId, ...payload})
sendChunk(p, payload) == events' = [events EXCEPT ![p] = Append(@, payload)]

Chunk(delta, content, isFinal, error) ==
  [delta |-> delta, content |-> content, isFinal |-> isFinal, error |-> error]

Logged(p, tag) == oplog' = [oplog EXCEPT ![p] = Append(@, tag)]

\* the route's catch block: res.status(500)
Fail500(p) ==
  /\ resp' = [resp EXCEPT ![p] = [status |-> 500]]
  /\ pc' = [pc EXCEPT ![p] = "done"]

\* the documents of chat_messages whose session_id is s, oldest first
SessionMessages(s) == SelectSeq(messages, LAMBDA m : m.session_id = s)

LastN(seq, n) == IF Len(seq) <= n THEN seq ELSE SubSeq(seq, Len(seq) - n + 1, Len(seq))

others == <<poll, vid, swp, storageObjects, generatedPhotos, nextGenId, sty, sse>>

\* chatService.ts:393, the messages of the session handed to the provider
RECENT_LIMIT == 20

\* chat.ts:120-121: typeof data/mimeType === 'string', mimeType.startsWith('image/')
ImageValid(image) ==
  /\ image.dataIsString
  /\ image.mimeIsString
  /\ image.mime = "image/png"

\* a store document of chat_sessions; updated_at holds the place that wrote it
\* last ("created", "chat", "renamed") instead of the time
SessionDoc(user, title, updated) ==
  [exists |-> TRUE, user_id |-> user, custom_title |-> title, updated_at |-> updated]

\* set(data, {merge: true}) of updated_at (and custom_title): creates the
\* document when it does not exist
MergeSession(doc, title, updated) ==
  IF doc = NoDoc THEN SessionDoc(NoUser, title, updated)
  ELSE [doc EXCEPT !.custom_title = title, !.updated_at = updated]

MessageDoc(id, session, role, content, image) ==
  [id |-> id, session_id |-> session, role |-> role, content |-> content,
   image |-> image]

\* chatService.ts:194: the summary is refreshed once the session holds this
\* many messages
SUMMARY_WINDOW == 50

\* chatService.ts:181-221 maybeUpdateSummary, as far as the provider is
\* concerned: below the window it returns at once; from the window on
\* generateSummary (geminiService.ts:630-658) sends the last messages of the
\* session to the language provider, unless no API key is configured
SummaryRefresh(p) ==
  IF Len(SessionMessages(loc[p].sessionId)) < SUMMARY_WINDOW
  THEN UNCHANGED oplog
  ELSE \/ Logged(p, "summaryCall")
       \/ UNCHANGED oplog

(***************************************************************************)
(* POST /chat (chat.ts:105-166), prepareChatContext, handleChatMessage.    *)
(***************************************************************************)
\* mutant: the image of the request is not validated
PostChat_NoImageCheck(p, users, sids, msgs, streams, images) ==
  /\ pc[p] = "idle"
  /\ reqCount < MaxRequests
  /\ \E u \in users, sid \in sids, m \in msgs, st \in streams, img \in images :
       /\ sid = NoSession => nextAuto <= Len(AutoIds)
       /\ req' = [req EXCEPT ![p] =
                    [kind |-> "chat", user |-> u, sessionId |-> sid, message |-> m,
                     stream |-> st, image |-> img, title |-> <<>>]]
       /\ IF m = <<>>
          THEN /\ resp' = [resp EXCEPT ![p] = [status |-> 400]]
               /\ pc' = [pc EXCEPT ![p] = "done"]
          ELSE /\ resp' = [resp EXCEPT ![p] = NoResp]
               /\ pc' = [pc EXCEPT ![p] = "ensureUser"]
  /\ reqCount' = reqCount + 1
  /\ loc' = [loc EXCEPT ![p] = LocInit]
  /\ events' = [events EXCEPT ![p] = <<>>]
  /\ oplog' = [oplog EXCEPT ![p] = <<>>]
  /\ UNCHANGED <<chatStore, others>>

\* chat.ts:113-125: the request arrives and its body is validated
PostChat(p, users, sids, msgs, streams, images) ==
  /\ pc[p] = "idle"
  /\ reqCount < MaxRequests
  /\ \E u \in users, sid \in sids, m \in msgs, st \in streams, img \in images :
       /\ sid = NoSession => nextAuto <= Len(AutoIds)
       /\ req' = [req EXCEPT ![p] =
                    [kind |-> "chat", user |-> u, sessionId |-> sid, message |-> m,
                     stream |-> st, image |-> img, title |-> <<>>]]
       /\ IF m = <<>> \/ (img # NoImage /\ ~ImageValid(img))
          THEN /\ resp' = [resp EXCEPT ![p] = [status |-> 400]]
               /\ pc' = [pc EXCEPT ![p] = "done"]
          ELSE /\ resp' = [resp EXCEPT ![p] = NoResp]
               /\ pc' = [pc EXCEPT ![p] = "ensureUser"]
  /\ reqCount' = reqCount + 1
  /\ loc' = [loc EXCEPT ![p] = LocInit]
  /\ events' = [events EXCEPT ![p] = <<>>]
  /\ oplog' = [oplog EXCEPT ![p] = <<>>]
  /\ UNCHANGED <<chatStore, others>>

\* userInfoService.ts:37-63, then chatService.ts:366-367 up to the next await
EnsureUserInfo(p) ==
  /\ pc[p] = "ensureUser"
  /\ \/ /\ usersInfo' = usersInfo \cup {req[p].user}
        /\ IF req[p].sessionId = NoSession
           THEN /\ pc' = [pc EXCEPT ![p] = "createSession"]
                /\ loc' = loc
           ELSE /\ pc' = [pc EXCEPT ![p] = "writeUser"]
                /\ loc' = [loc EXCEPT ![p].sessionId = req[p].sessionId]
        /\ UNCHANGED resp
     \/ /\ Fail500(p)
        /\ UNCHANGED <<usersInfo, loc>>
  /\ UNCHANGED <<sessions, messages, nextId, nextAuto, reqCount, req,
                 events, oplog, others>>

\* chatService.ts:29-39 createChatSession
CreateSession(p) ==
  /\ pc[p] = "createSession"
  /\ nextAuto <= Len(AutoIds)
  /\ \/ LET id == AutoIds[nextAuto] IN
        /\ sessions' = [sessions EXCEPT ![id] = SessionDoc(req[p].user, NoTitle, "created")]
        /\ nextAuto' = nextAuto + 1
        /\ loc' = [loc EXCEPT ![p].sessionId = id]
        /\ pc' = [pc EXCEPT ![p] = "writeUser"]
        /\ UNCHANGED resp
     \/ /\ Fail500(p)
        /\ UNCHANGED <<sessions, nextAuto, loc>>
  /\ UNCHANGED <<messages, usersInfo, nextId, reqCount, req, events, oplog, others>>

\* mutant: the user message is not written before the context is built
WriteUserMessage_Skipped(p) ==
  /\ pc[p] = "writeUser"
  /\ \/ /\ pc' = [pc EXCEPT ![p] = "readRecent"]
        /\ UNCHANGED <<resp, messages, nextId, loc, oplog>>
     \/ /\ Fail500(p)
        /\ UNCHANGED <<messages, nextId, loc, oplog>>
  /\ UNCHANGED <<sessions, usersInfo, nextAuto, reqCount, req, events, others>>

\* chatService.ts:369-379: the user message is written
WriteUserMessage(p) ==
  /\ pc[p] = "writeUser"
  /\ \/ /\ messages' = Append(messages,
             MessageDoc(nextId, loc[p].sessionId, "user", req[p].message,
                        req[p].image.mime))
        /\ nextId' = nextId + 1
        /\ loc' = [loc EXCEPT ![p].userMsgId = nextId]
        /\ Logged(p, "userMessage")
        /\ pc' = [pc EXCEPT ![p] = "readRecent"]
        /\ UNCHANGED resp
     \/ /\ Fail500(p)
        /\ UNCHANGED <<messages, nextId, loc, oplog>>
  /\ UNCHANGED <<sessions, usersInfo, nextAuto, reqCount, req, events, others>>

\* the text part pushed when an entry has no other part
SharedImageText == <<"Kullanici bir gorsel paylasti.">>

TextPart(text) == [kind |-> "text", text |-> text, mimeType |-> "none"]

InlineDataPart(image) == [kind |-> "inlineData", text |-> <<>>, mimeType |-> image.mime]

\* geminiService.ts:83-112 buildGeminiContents: one entry per history item;
\* the image is pushed onto the last entry when its role is user
buildGeminiContents(history, image) ==
  [index \in 1..Len(history) |->
     LET item == history[index]
         role == IF item.role = "assistant" THEN "model" ELSE "user"
         isLast == index = Len(history)
         textParts == IF item.content # <<>> THEN <<TextPart(item.content)>> ELSE <<>>
         imageParts == IF image # NoImage /\ isLast /\ role = "user"
                       THEN <<InlineDataPart(image)>> ELSE <<>>
         parts == textParts \o imageParts
     IN [role |-> role,
         parts |-> IF parts = <<>> THEN <<TextPart(SharedImageText)>> ELSE parts]]

\* chatService.ts:440, 525-530 and 543: the contents of the request that is
\* sent to the provider for the history and the image of this request
SendContents(p) ==
  loc' = [loc EXCEPT ![p].contents = buildGeminiContents(loc[p].history, req[p].image)]

\* chatService.ts:381-417: the recent messages, the memory summary, the context
ReadRecent(p) ==
  /\ pc[p] = "readRecent"
  /\ \/ LET recent == LastN(SessionMessages(loc[p].sessionId), RECENT_LIMIT) IN
        /\ loc' = [loc EXCEPT ![p].history =
                     [i \in 1..Len(recent) |->
                        [role |-> recent[i].role, content |-> recent[i].content]],
                                ![p].historyIds =
                     [i \in 1..Len(recent) |-> recent[i].id]]
        /\ pc' = [pc EXCEPT ![p] = IF req[p].stream THEN "streamSetup" ELSE "reply"]
        /\ UNCHANGED resp
     \/ /\ Fail500(p)
        /\ UNCHANGED loc
  /\ UNCHANGED <<chatStore, reqCount, req, events, oplog, others>>

\* mutant: the provider is asked even when the request is to be refused
ChatReply_AlwaysAsks(p) ==
  /\ pc[p] = "reply"
  /\ Logged(p, "providerCall")
  /\ pc' = [pc EXCEPT ![p] = "awaitProvider"]
  /\ UNCHANGED loc
  /\ UNCHANGED <<chatStore, reqCount, req, events, resp, others>>

\* chatService.ts:438-440: the local refusal, or the call of the provider
ChatReply(p) ==
  /\ pc[p] = "reply"
  /\ IF shouldRefuseCoachRequest(req[p].message)
     THEN /\ loc' = [loc EXCEPT ![p].reply = COACH_REFUSAL_MESSAGE]
          /\ pc' = [pc EXCEPT ![p] = "writeAssistant"]
          /\ UNCHANGED oplog
     ELSE /\ Logged(p, "providerCall")
          /\ pc' = [pc EXCEPT ![p] = "awaitProvider"]
          /\ SendContents(p)
  /\ UNCHANGED <<chatStore, reqCount, req, events, resp, others>>

\* geminiService.ts:114-146 generateCoachResponse: the trimmed text of the
\* first part, or an exception (no key, a failed request, an empty text)
ProviderReturn(p, replies) ==
  /\ pc[p] = "awaitProvider"
  /\ \/ /\ \E raw \in replies :
             /\ raw # <<>>
             /\ loc' = [loc EXCEPT ![p].reply = CoachReplyText(raw)]
        /\ Logged(p, "providerReturn")
        /\ pc' = [pc EXCEPT ![p] = "writeAssistant"]
        /\ UNCHANGED resp
     \/ /\ Fail500(p)
        /\ UNCHANGED <<loc, oplog>>
  /\ UNCHANGED <<chatStore, reqCount, req, events, others>>

\* chatService.ts:442-450: the assistant message is written
WriteAssistant(p) ==
  /\ pc[p] = "writeAssistant"
  /\ \/ /\ messages' = Append(messages,
             MessageDoc(nextId, loc[p].sessionId, "assistant", loc[p].reply, "none"))
        /\ nextId' = nextId + 1
        /\ loc' = [loc EXCEPT ![p].asstId = nextId]
        /\ Logged(p, "assistantMessage")
        /\ pc' = [pc EXCEPT ![p] = "touchSession"]
        /\ UNCHANGED resp
     \/ /\ Fail500(p)
        /\ UNCHANGED <<messages, nextId, loc, oplog>>
  /\ UNCHANGED <<sessions, usersInfo, nextAuto, reqCount, req, events, others>>

\* chatService.ts:452-457: updated_at of the session is merged in
TouchSession(p) ==
  /\ pc[p] = "touchSession"
  /\ \/ LET s == loc[p].sessionId IN
        /\ sessions' = [sessions EXCEPT ![s] =
                          MergeSession(@, IF @ = NoDoc THEN NoTitle ELSE @.custom_title, "chat")]
        /\ Logged(p, "sessionUpdated")
        /\ pc' = [pc EXCEPT ![p] = "summary"]
        /\ UNCHANGED resp
     \/ /\ Fail500(p)
        /\ UNCHANGED <<sessions, oplog>>
  /\ UNCHANGED <<messages, usersInfo, nextId, nextAuto, reqCount, req, loc, events, others>>

\* chatService.ts:459-464 and chat.ts:161: maybeUpdateSummary (which touches
\* chat_memory_summaries only), then the result is returned and answered
ChatRespond(p) ==
  /\ pc[p] = "summary"
  /\ \/ /\ SummaryRefresh(p)
        /\ resp' = [resp EXCEPT ![p] =
                      [status |-> 200, reply |-> loc[p].reply,
                       sessionId |-> loc[p].sessionId]]
        /\ pc' = [pc EXCEPT ![p] = "done"]
     \/ /\ Fail500(p)
        /\ UNCHANGED oplog
  /\ UNCHANGED <<chatStore, reqCount, req, loc, events, others>>

(***************************************************************************)
(* handleChatMessageStream (chatService.ts:467-560) and the run it returns.*)
(***************************************************************************)
\* chatService.ts:484-493, chat.ts:142-149 and the start of runStream
\* (chatService.ts:515-520): the response is sent, then the run begins
StreamSetup(p) ==
  /\ pc[p] = "streamSetup"
  /\ nextId' = nextId + 1
  /\ resp' = [resp EXCEPT ![p] =
                [status |-> 200, streaming |-> TRUE, messageId |-> nextId,
                 sessionId |-> loc[p].sessionId]]
  /\ IF shouldRefuseCoachRequest(req[p].message)
     THEN /\ sendChunk(p, Chunk(COACH_REFUSAL_MESSAGE, COACH_REFUSAL_MESSAGE, TRUE, NoError))
          /\ loc' = [loc EXCEPT ![p].asstId = nextId,
                                ![p].persist = COACH_REFUSAL_MESSAGE,
                                ![p].phase = "refusal"]
          /\ pc' = [pc EXCEPT ![p] = "finWrite"]
     ELSE /\ loc' = [loc EXCEPT ![p].asstId = nextId]
          /\ pc' = [pc EXCEPT ![p] = "openStream"]
          /\ UNCHANGED events
  /\ UNCHANGED <<sessions, messages, usersInfo, nextAuto, reqCount, req,
                 oplog, others>>

\* geminiService.ts:540-565: the key check and the streaming request
OpenStream(p) ==
  /\ pc[p] = "openStream"
  /\ Logged(p, "providerStream")
  /\ SendContents(p)
  /\ \/ pc' = [pc EXCEPT ![p] = "streaming"]
     \/ pc' = [pc EXCEPT ![p] = "catch"]
  /\ UNCHANGED <<chatStore, reqCount, req, events, resp, others>>

\* mutant: a line that is not valid JSON rejects the stream
StreamLine_GarbageRejects(p, lines) ==
  /\ pc[p] = "streaming"
  /\ loc[p].nEvents < MaxEvents
  /\ \E line \in lines :
       LET candidateText == IF line.kind = "json"
                            THEN extractCandidateText(line.candidate) ELSE <<>>
           delta == StreamDelta(loc[p].fullText, candidateText)
           fullText == loc[p].fullText \o delta
           received == IF line.kind = "json"
                       THEN Append(loc[p].received, JoinParts(line.candidate))
                       ELSE loc[p].received
       IN IF candidateText # <<>> /\ delta # <<>>
          THEN /\ loc' = [loc EXCEPT ![p].nEvents = @ + 1,
                                     ![p].fullText = fullText,
                                     ![p].sentAny = TRUE,
                                     ![p].latestText = fullText,
                                     ![p].received = received,
                                     ![p].line = line]
               /\ sendChunk(p, Chunk(delta, Absent, FALSE, NoError))
               /\ UNCHANGED pc
          ELSE /\ loc' = [loc EXCEPT ![p].nEvents = @ + 1,
                                     ![p].received = received,
                                     ![p].line = line]
               /\ pc' = [pc EXCEPT ![p] = IF line.kind = "garbage" THEN "catch" ELSE @]
               /\ UNCHANGED events
  /\ UNCHANGED <<chatStore, reqCount, req, oplog, resp, others>>

\* geminiService.ts:572-608 handleLine with chatService.ts:530-534 onDelta;
\* received keeps the candidate texts of the events as the provider sent
\* them, line the line handled last
StreamLine(p, lines) ==
  /\ pc[p] = "streaming"
  /\ loc[p].nEvents < MaxEvents
  /\ \E line \in lines :
       LET candidateText == IF line.kind = "json"
                            THEN extractCandidateText(line.candidate) ELSE <<>>
           delta == StreamDelta(loc[p].fullText, candidateText)
           fullText == loc[p].fullText \o delta
           received == IF line.kind = "json"
                       THEN Append(loc[p].received, JoinParts(line.candidate))
                       ELSE loc[p].received
       IN IF candidateText # <<>> /\ delta # <<>>
          THEN /\ loc' = [loc EXCEPT ![p].nEvents = @ + 1,
                                     ![p].fullText = fullText,
                                     ![p].sentAny = TRUE,
                                     ![p].latestText = fullText,
                                     ![p].received = received,
                                     ![p].line = line]
               /\ sendChunk(p, Chunk(delta, Absent, FALSE, NoError))
          ELSE /\ loc' = [loc EXCEPT ![p].nEvents = @ + 1,
                                     ![p].received = received,
                                     ![p].line = line]
               /\ UNCHANGED events
  /\ UNCHANGED <<chatStore, reqCount, pc, req, oplog, resp, others>>

\* geminiService.ts:617-622 and chatService.ts:537-539: the stream ends, the
\* final chunk is sent and persisting starts
StreamEnd(p) ==
  /\ pc[p] = "streaming"
  /\ LET finalText == StreamResolve(loc[p].fullText) IN
       /\ loc' = [loc EXCEPT ![p].latestText = finalText,
                             ![p].persist = finalText,
                             ![p].phase = "try"]
       /\ sendChunk(p, Chunk(Absent, finalText, TRUE, NoError))
  /\ pc' = [pc EXCEPT ![p] = "finWrite"]
  /\ UNCHANGED <<chatStore, reqCount, req, oplog, resp, others>>

\* geminiService.ts:624-626: the stream fails
StreamError(p) ==
  /\ pc[p] = "streaming"
  /\ pc' = [pc EXCEPT ![p] = "catch"]
  /\ UNCHANGED <<chatStore, reqCount, req, loc, events, oplog, resp, others>>

\* mutant: the catch block asks the provider again whatever was relayed
CatchStream_AlwaysFallsBack(p) ==
  /\ pc[p] = "catch"
  /\ pc' = [pc EXCEPT ![p] = "fallback"]
  /\ UNCHANGED <<loc, events>>
  /\ UNCHANGED <<chatStore, reqCount, req, oplog, resp, others>>

\* chatService.ts:540-551: the catch block of runStream
CatchStream(p) ==
  /\ pc[p] = "catch"
  /\ IF ~loc[p].sentAny
     THEN /\ pc' = [pc EXCEPT ![p] = "fallback"]
          /\ UNCHANGED <<loc, events>>
     ELSE /\ sendChunk(p, Chunk(Absent, loc[p].latestText, TRUE, "Streaming failed"))
          /\ IF loc[p].latestText # <<>>
             THEN /\ loc' = [loc EXCEPT ![p].persist = loc[p].latestText,
                                        ![p].phase = "catch"]
                  /\ pc' = [pc EXCEPT ![p] = "finWrite"]
             ELSE /\ pc' = [pc EXCEPT ![p] = "runDone"]
                  /\ UNCHANGED loc
  /\ UNCHANGED <<chatStore, reqCount, req, oplog, resp, others>>

\* chatService.ts:543-545: the non-streaming call made in the catch block
Fallback(p, replies) ==
  /\ pc[p] = "fallback"
  /\ Logged(p, "providerCall")
  /\ \/ \E raw \in replies :
          LET fallback == CoachReplyText(raw) IN
          /\ raw # <<>>
          /\ sendChunk(p, Chunk(fallback, fallback, TRUE, NoError))
          /\ loc' = [loc EXCEPT ![p].persist = fallback, ![p].phase = "catch",
                                ![p].contents =
                                  buildGeminiContents(loc[p].history, req[p].image)]
          /\ pc' = [pc EXCEPT ![p] = "finWrite"]
     \/ /\ pc' = [pc EXCEPT ![p] = "runRejected"]
        /\ SendContents(p)
        /\ UNCHANGED events
  /\ UNCHANGED <<chatStore, reqCount, req, resp, others>>

\* a rejection inside finalizeAndPersist: caught when it was called from the
\* try block (chatService.ts:539), it rejects the run otherwise
FinalizeFails(p) ==
  pc' = [pc EXCEPT ![p] = IF loc[p].phase = "try" THEN "catch" ELSE "runRejected"]

\* chatService.ts:496-503: doc(assistantMessageId).set(...)
FinalizeWrite(p) ==
  /\ pc[p] = "finWrite"
  /\ \/ /\ messages' = Append(SelectSeq(messages, LAMBDA m : m.id # loc[p].asstId),
             MessageDoc(loc[p].asstId, loc[p].sessionId, "assistant",
                        loc[p].persist, "none"))
        /\ Logged(p, "assistantMessage")
        /\ pc' = [pc EXCEPT ![p] = "finTouch"]
     \/ /\ FinalizeFails(p)
        /\ UNCHANGED <<messages, oplog>>
  /\ UNCHANGED <<sessions, usersInfo, nextId, nextAuto, reqCount, req, loc,
                 events, resp, others>>

\* chatService.ts:505-510
FinalizeTouch(p) ==
  /\ pc[p] = "finTouch"
  /\ \/ LET s == loc[p].sessionId IN
        /\ sessions' = [sessions EXCEPT ![s] =
                          MergeSession(@, IF @ = NoDoc THEN NoTitle ELSE @.custom_title, "chat")]
        /\ Logged(p, "sessionUpdated")
        /\ pc' = [pc EXCEPT ![p] = "finSummary"]
     \/ /\ FinalizeFails(p)
        /\ UNCHANGED <<sessions, oplog>>
  /\ UNCHANGED <<messages, usersInfo, nextId, nextAuto, reqCount, req, loc,
                 events, resp, others>>

\* chatService.ts:512 maybeUpdateSummary, the last step of finalizeAndPersist
FinalizeSummary(p) ==
  /\ pc[p] = "finSummary"
  /\ \/ /\ SummaryRefresh(p)
        /\ pc' = [pc EXCEPT ![p] = "runDone"]
     \/ /\ FinalizeFails(p)
        /\ UNCHANGED oplog
  /\ UNCHANGED <<chatStore, reqCount, req, loc, events, resp, others>>

\* the request is over: its slot is free for the next one
Retire(p) ==
  /\ pc[p] \in {"done", "runDone", "runRejected"}
  /\ pc' = [pc EXCEPT ![p] = "idle"]
  /\ req' = [req EXCEPT ![p] = NoReq]
  /\ loc' = [loc EXCEPT ![p] = LocInit]
  /\ events' = [events EXCEPT ![p] = <<>>]
  /\ oplog' = [oplog EXCEPT ![p] = <<>>]
  /\ resp' = [resp EXCEPT ![p] = NoResp]
  /\ UNCHANGED <<chatStore, reqCount, others>>

(***************************************************************************)
(* DELETE /chat/sessions/:id and PATCH /chat/sessions/:id/title            *)
(* (chat.ts:194-251), deleteChatSession and renameChatSession.             *)
(***************************************************************************)
\* chat.ts:201-205 and 230-235: the ids and the title are trimmed and checked
SessionRequest(p, kind, users, sids, titles) ==
  /\ pc[p] = "idle"
  /\ reqCount < MaxRequests
  /\ \E u \in users, sid \in sids, title \in titles :
       /\ req' = [req EXCEPT ![p] =
                    [kind |-> kind, user |-> u, sessionId |-> sid, message |-> <<>>,
                     stream |-> FALSE, image |-> NoImage, title |-> Trim(title)]]
       /\ IF sid = BlankId \/ (kind = "rename" /\ Trim(title) = <<>>)
          THEN /\ resp' = [resp EXCEPT ![p] = [status |-> 400]]
               /\ pc' = [pc EXCEPT ![p] = "done"]
          ELSE /\ resp' = [resp EXCEPT ![p] = NoResp]
               /\ pc' = [pc EXCEPT ![p] = "sessionGet"]
  /\ reqCount' = reqCount + 1
  /\ loc' = [loc EXCEPT ![p] = LocInit]
  /\ events' = [events EXCEPT ![p] = <<>>]
  /\ oplog' = [oplog EXCEPT ![p] = <<>>]
  /\ UNCHANGED <<chatStore, others>>

DeleteRequest(p, users, sids) == SessionRequest(p, "delete", users, sids, {<<>>})

RenameRequest(p, users, sids, titles) == SessionRequest(p, "rename", users, sids, titles)

\* mutant: the owner of the session is not checked
SessionGet_NoOwnerCheck(p) ==
  /\ pc[p] = "sessionGet"
  /\ LET doc == sessions[req[p].sessionId] IN
     \/ /\ doc = NoDoc
        /\ resp' = [resp EXCEPT ![p] = [status |-> 404, reason |-> "not_found"]]
        /\ pc' = [pc EXCEPT ![p] = "done"]
     \/ /\ doc # NoDoc
        /\ pc' = [pc EXCEPT ![p] = IF req[p].kind = "delete" THEN "deleteQuery" ELSE "renameSet"]
        /\ UNCHANGED resp
     \/ Fail500(p)
  /\ UNCHANGED <<chatStore, reqCount, req, loc, events, oplog, others>>

\* chatService.ts:110-118 and 134-142: the session is read and the owner is
\* checked; chat.ts:208-215 and 238-245 answer 404 and 403
SessionGet(p) ==
  /\ pc[p] = "sessionGet"
  /\ LET doc == sessions[req[p].sessionId] IN
     \/ /\ doc = NoDoc
        /\ resp' = [resp EXCEPT ![p] = [status |-> 404, reason |-> "not_found"]]
        /\ pc' = [pc EXCEPT ![p] = "done"]
     \/ /\ doc # NoDoc
        /\ doc.user_id # req[p].user
        /\ resp' = [resp EXCEPT ![p] = [status |-> 403, reason |-> "forbidden"]]
        /\ pc' = [pc EXCEPT ![p] = "done"]
     \/ /\ doc # NoDoc
        /\ doc.user_id = req[p].user
        /\ pc' = [pc EXCEPT ![p] = IF req[p].kind = "delete" THEN "deleteQuery" ELSE "renameSet"]
        /\ UNCHANGED resp
     \/ Fail500(p)
  /\ UNCHANGED <<chatStore, reqCount, req, loc, events, oplog, others>>

\* chatService.ts:120-123: the messages of the session are queried
DeleteQuery(p) ==
  /\ pc[p] = "deleteQuery"
  /\ \/ /\ loc' = [loc EXCEPT ![p].snapshot =
                     {messages[i].id : i \in {j \in 1..Len(messages) :
                                               messages[j].session_id = req[p].sessionId}}]
        /\ pc' = [pc EXCEPT ![p] = "deleteCommit"]
        /\ UNCHANGED resp
     \/ /\ Fail500(p)
        /\ UNCHANGED loc
  /\ UNCHANGED <<chatStore, reqCount, req, events, oplog, others>>

\* chatService.ts:125-130: one batch deletes the queried messages and the session
DeleteCommit(p) ==
  /\ pc[p] = "deleteCommit"
  /\ \/ /\ messages' = SelectSeq(messages, LAMBDA m : m.id \notin loc[p].snapshot)
        /\ sessions' = [sessions EXCEPT ![req[p].sessionId] = NoDoc]
        /\ resp' = [resp EXCEPT ![p] =
                      [status |-> 200, messagesDeleted |-> Cardinality(loc[p].snapshot)]]
        /\ pc' = [pc EXCEPT ![p] = "done"]
     \/ /\ Fail500(p)
        /\ UNCHANGED <<messages, sessions>>
  /\ UNCHANGED <<usersInfo, nextId, nextAuto, reqCount, req, loc, events,
                 oplog, others>>

\* chatService.ts:144-151: custom_title and updated_at are merged in
RenameSet(p) ==
  /\ pc[p] = "renameSet"
  /\ \/ /\ sessions' = [sessions EXCEPT ![req[p].sessionId] =
                          MergeSession(@, Trim(req[p].title), "renamed")]
        /\ resp' = [resp EXCEPT ![p] = [status |-> 200, title |-> req[p].title]]
        /\ pc' = [pc EXCEPT ![p] = "done"]
     \/ /\ Fail500(p)
        /\ UNCHANGED <<sessions>>
  /\ UNCHANGED <<messages, usersInfo, nextId, nextAuto, reqCount, req, loc,
                 events, oplog, others>>

\* chat.ts:184-186: GET /chat/sessions/:id/messages of an authenticated user
MessagesRequest(p, users, sids) ==
  /\ pc[p] = "idle"
  /\ reqCount < MaxRequests
  /\ \E u \in users, sid \in sids :
       req' = [req EXCEPT ![p] =
                 [kind |-> "messages", user |-> u, sessionId |-> sid, message |-> <<>>,
                  stream |-> FALSE, image |-> NoImage, title |-> <<>>]]
  /\ resp' = [resp EXCEPT ![p] = NoResp]
  /\ pc' = [pc EXCEPT ![p] = "listMessages"]
  /\ reqCount' = reqCount + 1
  /\ loc' = [loc EXCEPT ![p] = LocInit]
  /\ events' = [events EXCEPT ![p] = <<>>]
  /\ oplog' = [oplog EXCEPT ![p] = <<>>]
  /\ UNCHANGED <<chatStore, others>>

\* chat.ts:186-191 with listChatMessages (chatService.ts:154-166): the
\* messages whose session_id is the route parameter, oldest first
ListMessages(p) ==
  /\ pc[p] = "listMessages"
  /\ \/ /\ resp' = [resp EXCEPT ![p] =
                      [status |-> 200, messages |-> SessionMessages(req[p].sessionId)]]
        /\ pc' = [pc EXCEPT ![p] = "done"]
     \/ Fail500(p)
  /\ UNCHANGED <<chatStore, reqCount, req, loc, events, oplog, others>>

(***************************************************************************)
(* The environment of the chat service: what clients send and what the     *)
(* provider answers.                                                       *)
(***************************************************************************)
MessageInputs == {<<>>, <<"merhaba">>, <<"PDF">>}

ValidImage == [dataIsString |-> TRUE, mimeIsString |-> TRUE, mime |-> "image/png"]
ImageInputs == {NoImage, ValidImage,
                [dataIsString |-> TRUE, mimeIsString |-> TRUE, mime |-> "text/plain"],
                [dataIsString |-> FALSE, mimeIsString |-> TRUE, mime |-> "image/png"],
                [dataIsString |-> TRUE, mimeIsString |-> FALSE, mime |-> "none"]}

TitleInputs == {<<>>, <<" ">>, <<"t">>, <<" ", "t">>}

\* the text of the first part of a non-streaming answer
ReplyTexts == {<<"a">>, <<" ", "a">>, <<" ">>}

\* the candidates of the events of a stream: each the texts of its parts
Candidates == {<<>>, << <<" ">> >>, << <<"a">> >>, << <<" ", "a">> >>,
               << <<"a", " ">> >>, << <<"a">>, <<"b">> >>,
               << <<"a", " ">>, <<"b">> >>}

StreamLines == {[kind |-> k, candidate |-> <<>>] : k \in {"blank", "done", "garbage"}}
               \cup {[kind |-> "json", candidate |-> c] : c \in Candidates}

\* the provider's answers in the specification of the store's bookkeeping
StoreReplyTexts == {<<" ", "a">>}
StoreStreamLines == {[kind |-> "json", candidate |-> << <<"a">> >>]}

\* the session ids a client can name: those it has seen, or one it made up
ClientSessionIds == ExistingIds \cup {ForeignId}

Off == [pc |-> "off"]

OthersOff ==
  /\ poll = Off
  /\ vid = Off
  /\ swp = Off
  /\ storageObjects = {}
  /\ generatedPhotos = {}
  /\ nextGenId = 1
  /\ sty = [pc |-> "off", n |-> 0]
  /\ sse = Off

\* requests are served one after the other
Quiet == \A q \in Procs : pc[q] = "idle"

SeqProcs == {"p1"}

(***************************************************************************)
(* Spec: the chat routes, one request at a time.                           *)
(***************************************************************************)
Init == ChatInit /\ OthersOff

Next ==
  \E p \in SeqProcs :
    \/ Quiet /\ PostChat(p, Users, ClientSessionIds \cup {NoSession},
                         MessageInputs, BOOLEAN, ImageInputs)
    \/ Quiet /\ DeleteRequest(p, Users, ClientSessionIds \cup {BlankId})
    \/ Quiet /\ RenameRequest(p, Users, ClientSessionIds \cup {BlankId}, TitleInputs)
    \/ Quiet /\ MessagesRequest(p, Users, ClientSessionIds)
    \/ ListMessages(p)
    \/ EnsureUserInfo(p)
    \/ CreateSession(p)
    \/ WriteUserMessage(p)
    \/ ReadRecent(p)
    \/ ChatReply(p)
    \/ ProviderReturn(p, StoreReplyTexts)
    \/ WriteAssistant(p)
    \/ TouchSession(p)
    \/ ChatRespond(p)
    \/ StreamSetup(p)
    \/ OpenStream(p)
    \/ StreamLine(p, StoreStreamLines)
    \/ StreamEnd(p)
    \/ StreamError(p)
    \/ CatchStream(p)
    \/ Fallback(p, StoreReplyTexts)
    \/ FinalizeWrite(p)
    \/ FinalizeTouch(p)
    \/ FinalizeSummary(p)
    \/ SessionGet(p)
    \/ DeleteQuery(p)
    \/ DeleteCommit(p)
    \/ RenameSet(p)
    \/ Retire(p)

Spec == Init /\ [][Next]_vars

(***************************************************************************)
(* SpecStream: streaming chat requests, with every answer of the provider  *)
(* and every failure of the store.                                         *)
(***************************************************************************)
NextStream ==
  \E p \in SeqProcs :
    \/ Quiet /\ PostChat(p, {"u1"}, ClientSessionIds \cup {NoSession},
                         {<<"merhaba">>, <<"PDF">>}, {TRUE}, {NoImage})
    \/ EnsureUserInfo(p)
    \/ CreateSession(p)
    \/ WriteUserMessage(p)
    \/ ReadRecent(p)
    \/ StreamSetup(p)
    \/ OpenStream(p)
    \/ StreamLine(p, StreamLines)
    \/ StreamEnd(p)
    \/ StreamError(p)
    \/ CatchStream(p)
    \/ Fallback(p, ReplyTexts)
    \/ FinalizeWrite(p)
    \/ FinalizeTouch(p)
    \/ FinalizeSummary(p)
    \/ Retire(p)

SpecStream == Init /\ [][NextStream]_vars

\* the run of a streaming request has ended: resolved, or rejected
RunEnded(p) == pc[p] \in {"runDone", "runRejected"}

FinalIndexes(p) == {i \in 1..Len(events[p]) : events[p][i].isFinal}

RECURSIVE ConcatDeltas(_)
\* the delta fields of a sequence of chunks, concatenated in sending order
ConcatDeltas(chunks) ==
  IF chunks = <<>> THEN <<>>
  ELSE (IF Head(chunks).delta = Absent THEN <<>> ELSE Head(chunks).delta)
       \o ConcatDeltas(Tail(chunks))

\* C1 (as claimed): in every execution of a streaming run, at most one event
\* with isFinal = true is sent for the messageId and no event follows it.
C1_AtMostOneFinalAndNothingAfter ==
  \A p \in Procs :
    /\ Cardinality(FinalIndexes(p)) <= 1
    /\ \A i \in FinalIndexes(p) : i = Len(events[p])

\* C2 (as claimed): every streaming run that was started sends an event with
\* isFinal = true; stated on the runs that have ended.
C2_EndedRunSentFinal ==
  \A p \in Procs : RunEnded(p) => FinalIndexes(p) # {}

\* C3: whenever a final chunk is sent, its content equals the concatenation,
\* in sending order, of the deltas of all chunks sent up to and including it.
C3_FinalContentIsConcatOfDeltas ==
  \A p \in Procs :
    \A i \in FinalIndexes(p) :
      events[p][i].content = ConcatDeltas(SubSeq(events[p], 1, i))

\* a final chunk sent after two deltas, one of them cut from a cumulative text
C3_Witness ==
  \E p \in Procs :
    /\ Len(events[p]) = 3
    /\ events[p][3].isFinal
    /\ events[p][1].delta = <<"a">>
    /\ events[p][2].delta = <<" ", "b">>

(***************************************************************************)
(* Claims on the store's bookkeeping, under Spec.                          *)
(***************************************************************************)
\* every occurrence of tag b in the log is preceded by an occurrence of a
Precedes(log, a, b) ==
  \A i \in 1..Len(log) : log[i] = b => \E j \in 1..(i - 1) : log[j] = a

StoreHolds(id, session, role, content) ==
  \E i \in 1..Len(messages) :
    /\ messages[i].id = id
    /\ messages[i].session_id = session
    /\ messages[i].role = role
    /\ messages[i].content = content

NonStreaming(p) == req[p].kind = "chat" /\ ~req[p].stream

SessionOp(p) == req[p].kind \in {"delete", "rename"}

\* C10: deleteChatSession and renameChatSession act only for the owner: a
\* missing session is answered not_found (404), a session of another user
\* forbidden (403), and in both cases no chat_sessions or chat_messages
\* document is created, changed or deleted.
C10_OnlyOwnerActs ==
  [][\A p \in Procs :
       LET doc == sessions[req[p].sessionId]
           missing == doc = NoDoc
           foreign == doc # NoDoc /\ doc.user_id # req[p].user
       IN (SessionOp(p) /\ pc[p] # "idle" /\ pc[p] # "done" /\ pc'[p] # pc[p]) =>
            /\ (pc[p] = "sessionGet" /\ missing) =>
                 /\ pc'[p] = "done"
                 /\ resp'[p].status # 500 =>
                      resp'[p] = [status |-> 404, reason |-> "not_found"]
            /\ (pc[p] = "sessionGet" /\ foreign) =>
                 /\ pc'[p] = "done"
                 /\ resp'[p].status # 500 =>
                      resp'[p] = [status |-> 403, reason |-> "forbidden"]
            /\ (missing \/ foreign) => (sessions' = sessions /\ messages' = messages)
    ]_vars

\* a delete by another user was answered 403 and the session kept its messages
C10_Witness ==
  \E p \in Procs :
    /\ req[p].kind = "delete"
    /\ pc[p] = "done"
    /\ resp[p].status = 403
    /\ sessions[req[p].sessionId] # NoDoc
    /\ sessions[req[p].sessionId].user_id \in Users \ {req[p].user}
    /\ SessionMessages(req[p].sessionId) # <<>>

(***************************************************************************)
(* pollLongRunningOperation (src/unnamed/part_000:1199-1256): the status   *)
(* of a long-running video operation is requested until it is done, a      *)
(* request is answered with a non-2xx status, or maxPollCount requests      *)
(* were made.                                                               *)
(***************************************************************************)
\* the largest value of GEMINI_VEO_POLL_MAX the environment sets
MaxPollEnv == 3

\* part_000:1205: the count used when GEMINI_VEO_POLL_MAX is unset or empty
DEFAULT_POLL_MAX == 20

\* GEMINI_VEO_POLL_MAX: unset, or a decimal count
PollEnvs ==
  {[set |-> FALSE, value |-> 0]} \cup [set : {TRUE}, value : 0..MaxPollEnv]

\* part_000:1205: Number(process.env.GEMINI_VEO_POLL_MAX || 20)
maxPollCountOf(env) == IF env.set THEN env.value ELSE DEFAULT_POLL_MAX

\* status null is the empty sequence, a status code is a sequence of one number
NullStatus == <<>>

\* the payload of a status response, as far as the caller reads it: done and
\* the uri of the video
NoPollData == [done |-> FALSE, uri |-> <<>>]

NoPollResult ==
  [kind |-> "none", ok |-> FALSE, status |-> NullStatus, error |-> "none",
   data |-> NoPollData]

\* part_000:1251-1255
PollTimeout ==
  [kind |-> "returned", ok |-> FALSE, status |-> NullStatus, error |-> "operation_timeout",
   data |-> NoPollData]

\* the answers of the provider to one status request: validateStatus accepts
\* every status, so each of them is a response
PollResponses ==
  [status : {199, 200, 204, 299, 300, 404, 500}, done : BOOLEAN,
   uri : {<<>>, <<" ", "v">>}]

PayloadOf(response) == [done |-> response.done, uri |-> response.uri]

NoPollResponse == [status |-> 0, done |-> FALSE, uri |-> <<>>]

\* the result of generateStyledVideoWithVeo, before it returns
NoVeoResult == [outputVideoUrl |-> <<>>, usedFallback |-> FALSE, providerStatus |-> NullStatus]

\* the reference video of the call
VeoReferenceUrl == <<"r">>

\* part_000:1154-1180 extractVideoUrlFromVeoResponse on the payload's uri:
\* the trimmed uri, or null (the empty text)
extractVideoUrlFromVeoResponse(payload) == Trim(payload.uri)

Is2xx(status) == status >= 200 /\ status < 300

\* part_000:1199-1210: the call starts, the loop counter is 1
PollCall(envs) ==
  /\ poll.pc \in {"off", "returned"}
  /\ \E env \in envs :
       poll' = [pc |-> "loop", maxPollCount |-> maxPollCountOf(env), attempt |-> 1,
                requests |-> 0, non2xx |-> FALSE, done |-> FALSE,
                result |-> NoPollResult, last |-> NoPollResponse,
                caller |-> NoVeoResult]
  /\ UNCHANGED <<chatVars, sse, vid, swp, styleVars>>

\* mutant: the loop makes one more request than maxPollCount
PollLoop_OneMore ==
  /\ poll.pc = "loop"
  /\ IF poll.attempt <= poll.maxPollCount + 1
       THEN poll' = [poll EXCEPT !.pc = "request", !.requests = @ + 1]
       ELSE poll' = [poll EXCEPT !.pc = "ended", !.result = PollTimeout]
  /\ UNCHANGED <<chatVars, sse, vid, swp, styleVars>>

\* part_000:1212-1216 and 1251-1255: the loop condition; a status request is
\* issued, or the loop is left and the timeout result returned
PollLoop ==
  /\ poll.pc = "loop"
  /\ IF poll.attempt <= poll.maxPollCount
       THEN poll' = [poll EXCEPT !.pc = "request", !.requests = @ + 1]
       ELSE poll' = [poll EXCEPT !.pc = "ended", !.result = PollTimeout]
  /\ UNCHANGED <<chatVars, sse, vid, swp, styleVars>>

\* part_000:1217-1247: the response of the status request
PollResponse(responses) ==
  /\ poll.pc = "request"
  /\ \E r \in responses :
       IF ~Is2xx(r.status)
         THEN poll' = [poll EXCEPT !.pc = "ended", !.non2xx = TRUE, !.last = r,
                         !.result = [kind |-> "returned", ok |-> FALSE,
                                     status |-> <<r.status>>, error |-> "none",
                                     data |-> PayloadOf(r)]]
         ELSE IF r.done
           THEN poll' = [poll EXCEPT !.pc = "ended", !.done = TRUE, !.last = r,
                           !.result = [kind |-> "returned", ok |-> TRUE,
                                       status |-> <<r.status>>, error |-> "none",
                                       data |-> PayloadOf(r)]]
           ELSE poll' = [poll EXCEPT !.pc = "sleep", !.last = r]
  /\ UNCHANGED <<chatVars, sse, vid, swp, styleVars>>

\* part_000:1213-1216: the request ends without a response (network error or
\* the request timeout): axios.get rejects and so does the call
PollRequestFails ==
  /\ poll.pc = "request"
  /\ poll' = [poll EXCEPT !.pc = "ended",
                !.result = [kind |-> "rejected", ok |-> FALSE,
                            status |-> NullStatus, error |-> "request_failed",
                            data |-> NoPollData]]
  /\ UNCHANGED <<chatVars, sse, vid, swp, styleVars>>

\* part_000:1249 and 1212: the sleep ends, attempt += 1
PollSleep ==
  /\ poll.pc = "sleep"
  /\ poll' = [poll EXCEPT !.pc = "loop", !.attempt = @ + 1]
  /\ UNCHANGED <<chatVars, sse, vid, swp, styleVars>>

\* part_000:1433-1500: the fallback result of generateStyledVideoWithVeo
VeoFallback(status) ==
  [outputVideoUrl |-> VeoReferenceUrl, usedFallback |-> TRUE, providerStatus |-> status]

\* mutant: the caller reads the payload of the poll result whatever ok says
VeoReturn_IgnoresOk ==
  /\ poll.pc = "ended"
  /\ LET extractedVideoUrl == extractVideoUrlFromVeoResponse(poll.result.data) IN
     poll' = [poll EXCEPT !.pc = "returned",
                !.caller = IF poll.result.kind = "rejected" THEN VeoFallback(NullStatus)
                           ELSE IF extractedVideoUrl # <<>>
                             THEN [outputVideoUrl |-> extractedVideoUrl,
                                   usedFallback |-> FALSE, providerStatus |-> <<200>>]
                           ELSE VeoFallback(<<200>>)]
  /\ UNCHANGED <<chatVars, sse, vid, swp, styleVars>>

\* part_000:1410-1500: generateStyledVideoWithVeo after the poll, the first
\* response having been 200 with an operation name: a rejected poll is
\* caught, a poll result that is not ok returns the reference video, the
\* payload of an ok result is searched for the video's uri
VeoReturn ==
  /\ poll.pc = "ended"
  /\ LET extractedVideoUrl == extractVideoUrlFromVeoResponse(poll.result.data) IN
     poll' = [poll EXCEPT !.pc = "returned",
                !.caller = IF poll.result.kind = "rejected" THEN VeoFallback(NullStatus)
                           ELSE IF ~poll.result.ok THEN VeoFallback(poll.result.status)
                           ELSE IF extractedVideoUrl # <<>>
                             THEN [outputVideoUrl |-> extractedVideoUrl,
                                   usedFallback |-> FALSE, providerStatus |-> <<200>>]
                           ELSE VeoFallback(<<200>>)]
  /\ UNCHANGED <<chatVars, sse, vid, swp, styleVars>>

NextPoll ==
  \/ PollCall(PollEnvs)
  \/ PollLoop
  \/ PollResponse(PollResponses)
  \/ PollRequestFails
  \/ PollSleep
  \/ VeoReturn

\* every step of a call is taken at some time: the event loop runs the
\* continuation of each settled await and each timer
SpecPoll == Init /\ [][NextPoll]_vars /\ WF_vars(NextPoll)

PollRunning == poll.pc \in {"loop", "request", "sleep"}

PollEnded == poll.pc \in {"ended", "returned"}

C20_PollResultAndFallback ==
  /\ []((PollEnded /\ poll.result.kind = "returned" /\ poll.result.ok)
          => /\ Is2xx(poll.last.status) /\ poll.last.done
             /\ poll.result.status = <<poll.last.status>>
             /\ poll.result.data = PayloadOf(poll.last))
  /\ []((poll.pc # "off" /\ poll.last # NoPollResponse /\ ~Is2xx(poll.last.status))
          => /\ PollEnded
             /\ poll.result.kind = "returned"
             /\ ~poll.result.ok
             /\ poll.result.status = <<poll.last.status>>)
  /\ [][(poll.pc # "off" /\ poll.last # NoPollResponse /\ ~Is2xx(poll.last.status)
           /\ poll'.last = poll.last)
          => poll'.requests = poll.requests]_vars
  /\ []((poll.pc = "returned" /\ ~poll.result.ok)
          => /\ poll.caller.usedFallback
             /\ poll.caller.outputVideoUrl = VeoReferenceUrl)

\* the second status request was answered 404 with a payload that names a
\* video, and the caller returned the reference video
C20_Witness ==
  /\ poll.pc = "returned"
  /\ poll.requests = 2
  /\ poll.last.status = 404
  /\ poll.last.uri # <<>>
  /\ poll.result.status = <<404>>
  /\ poll.caller = VeoFallback(<<404>>)


(***************************************************************************)
(* FAL video generation, generateStyledVideoWithVeo                        *)
(* (geminiService.ts:690-891): a person swap on the reference video, then  *)
(* a background swap on the output of the person swap.                     *)
(***************************************************************************)
\* an environment variable: unset, or set to a string
EnvUnset == [set |-> FALSE, value |-> ""]

EnvSet(v) == [set |-> TRUE, value |-> v]

\* process.env.X || fallback: unset and the empty string give the fallback
EnvOr(env, fallback) == IF env.set /\ env.value # "" THEN env.value ELSE fallback

\* geminiService.ts:703
enableBackgroundSwapOf(env) == EnvOr(env, "true") = "true"

NullText == <<>>

NoUrl == <<>>

MissingKeyText == <<"Fallback video URL used because FAL_KEY is missing.">>

MissingOutputText == <<"FAL fallback used (person swap response missing video URL)">>

BackgroundSkippedText ==
  <<"Background swap skipped: response missing video URL, returning person swap output.">>

BackgroundFailedText == <<"Background swap failed; returning person swap output.">>

RequestFailedText == <<"FAL request failed: ...">>

\* the response of fal.subscribe: not an object, or an object of which the
\* first two fields of the chain at geminiService.ts:671-682 are modelled; a
\* field that is missing or empty is the empty text
NoPayload == [isObject |-> FALSE, video_url |-> <<>>, videoUrl |-> <<>>]

\* geminiService.ts:668-688
extractVideoUrlFromFalResponse(payload) ==
  IF ~payload.isObject THEN NoUrl
  ELSE LET direct == IF payload.video_url # <<>> THEN payload.video_url
                     ELSE payload.videoUrl
       IN IF Len(Trim(direct)) > 0 THEN Trim(direct) ELSE NoUrl

NoSwap == [outcome |-> "none", url |-> NoUrl]

NoVideoResult ==
  [kind |-> "none", outputVideoUrl |-> NoUrl, providerText |-> NullText,
   providerStatus |-> NullStatus, usedFallback |-> FALSE]

VideoResult(url, text, status, fallback) ==
  [kind |-> "returned", outputVideoUrl |-> url, providerText |-> text,
   providerStatus |-> status, usedFallback |-> fallback]

\* geminiService.ts:742-757: the input of one Pixverse swap
SwapInput(mode, videoUrl, imageUrl) ==
  [mode |-> mode, video_url |-> videoUrl, image_url |-> imageUrl]

\* geminiService.ts:865-871
VideoReturn(v, url, text) ==
  [v EXCEPT !.pc = "ended", !.result = VideoResult(url, text, <<200>>, FALSE)]

\* geminiService.ts:690-740: the state of the call up to its first await;
\* without a FAL key the reference video is returned
VideoStart(k, e, b, r, i) ==
  LET v == [pc |-> "personSwap", falKey |-> k, enableEnv |-> e,
            enableBackgroundSwap |-> enableBackgroundSwapOf(e),
            babyBackgroundImageUrl |-> b, referenceVideoUrl |-> r,
            userImageUrl |-> i, calls |-> <<>>, personSwap |-> NoSwap,
            backgroundSwap |-> NoSwap, result |-> NoVideoResult]
  IN IF k THEN v
     ELSE [v EXCEPT !.pc = "ended",
             !.result = VideoResult(r, MissingKeyText, NullStatus, TRUE)]

\* geminiService.ts:690-740: generateStyledVideoWithVeo is called
VideoCall(keys, enables, backgrounds, references, images) ==
  /\ vid.pc \in {"off", "ended"}
  /\ \E k \in keys, e \in enables, b \in backgrounds, r \in references, i \in images :
       vid' = VideoStart(k, e, b, r, i)
  /\ UNCHANGED <<chatVars, sse, poll, swp, styleVars>>

\* geminiService.ts:805-811 with 742-757: the person swap is submitted
PersonSwapCall ==
  /\ vid.pc = "personSwap"
  /\ vid' = [vid EXCEPT !.pc = "personAwait",
               !.calls = Append(@, SwapInput("person", vid.referenceVideoUrl,
                                             vid.userImageUrl))]
  /\ UNCHANGED <<chatVars, sse, poll, swp, styleVars>>

\* mutant: a person swap without an output URL is not turned into the fallback
PersonSwapReturns_NoOutputCheck(payloads) ==
  /\ vid.pc = "personAwait"
  /\ \E payload \in payloads :
       LET url == extractVideoUrlFromFalResponse(payload)
           v == [vid EXCEPT !.personSwap =
                    [outcome |-> IF url = NoUrl THEN "nourl" ELSE "url", url |-> url]]
       IN vid' = IF v.enableBackgroundSwap /\ v.babyBackgroundImageUrl # <<>>
                   THEN [v EXCEPT !.pc = "backgroundSwap"]
                   ELSE VideoReturn(v, url, NullText)
  /\ UNCHANGED <<chatVars, sse, poll, swp, styleVars>>

\* geminiService.ts:773-830 and 865-871: the person swap returned
PersonSwapReturns(payloads) ==
  /\ vid.pc = "personAwait"
  /\ \E payload \in payloads :
       LET url == extractVideoUrlFromFalResponse(payload)
           v == [vid EXCEPT !.personSwap =
                    [outcome |-> IF url = NoUrl THEN "nourl" ELSE "url", url |-> url]]
       IN vid' = IF url = NoUrl
                   THEN [v EXCEPT !.pc = "ended",
                           !.result = VideoResult(v.referenceVideoUrl, MissingOutputText,
                                                  <<200>>, TRUE)]
                   ELSE IF v.enableBackgroundSwap /\ v.babyBackgroundImageUrl # <<>>
                     THEN [v EXCEPT !.pc = "backgroundSwap"]
                     ELSE VideoReturn(v, url, NullText)
  /\ UNCHANGED <<chatVars, sse, poll, swp, styleVars>>

\* geminiService.ts:773 and 872-890: fal.subscribe of the person swap rejects;
\* the outer catch reports the status of the error's response, when it has one
PersonSwapThrows(statuses) ==
  /\ vid.pc = "personAwait"
  /\ \E st \in statuses :
       vid' = [vid EXCEPT !.pc = "ended", !.personSwap = [outcome |-> "threw", url |-> NoUrl],
                 !.result = VideoResult(vid.referenceVideoUrl, RequestFailedText, st, TRUE)]
  /\ UNCHANGED <<chatVars, sse, poll, swp, styleVars>>

\* mutant: the background swap is run on the reference video
BackgroundSwapCall_OnReference ==
  /\ vid.pc = "backgroundSwap"
  /\ vid' = [vid EXCEPT !.pc = "backgroundAwait",
               !.calls = Append(@, SwapInput("background", vid.referenceVideoUrl,
                                             vid.babyBackgroundImageUrl))]
  /\ UNCHANGED <<chatVars, sse, poll, swp, styleVars>>

\* geminiService.ts:830-837 with 742-757: the background swap is submitted
BackgroundSwapCall ==
  /\ vid.pc = "backgroundSwap"
  /\ vid' = [vid EXCEPT !.pc = "backgroundAwait",
               !.calls = Append(@, SwapInput("background", vid.personSwap.url,
                                             vid.babyBackgroundImageUrl))]
  /\ UNCHANGED <<chatVars, sse, poll, swp, styleVars>>

\* geminiService.ts:838-850 and 865-871: the background swap returned
BackgroundSwapReturns(payloads) ==
  /\ vid.pc = "backgroundAwait"
  /\ \E payload \in payloads :
       LET url == extractVideoUrlFromFalResponse(payload)
           v == [vid EXCEPT !.backgroundSwap =
                    [outcome |-> IF url = NoUrl THEN "nourl" ELSE "url", url |-> url]]
       IN vid' = IF url # NoUrl
                   THEN VideoReturn(v, url, NullText)
                   ELSE VideoReturn(v, v.personSwap.url, BackgroundSkippedText)
  /\ UNCHANGED <<chatVars, sse, poll, swp, styleVars>>

\* mutant: the error of the background swap reaches the outer catch
BackgroundSwapThrows_Propagates ==
  /\ vid.pc = "backgroundAwait"
  /\ vid' = [vid EXCEPT !.pc = "ended",
               !.backgroundSwap = [outcome |-> "threw", url |-> NoUrl],
               !.result = VideoResult(vid.referenceVideoUrl, RequestFailedText,
                                      NullStatus, TRUE)]
  /\ UNCHANGED <<chatVars, sse, poll, swp, styleVars>>

\* geminiService.ts:851-871: fal.subscribe of the background swap rejects
BackgroundSwapThrows ==
  /\ vid.pc = "backgroundAwait"
  /\ vid' = VideoReturn([vid EXCEPT !.backgroundSwap = [outcome |-> "threw", url |-> NoUrl]],
                        vid.personSwap.url, BackgroundFailedText)
  /\ UNCHANGED <<chatVars, sse, poll, swp, styleVars>>

EnableEnvs == {EnvUnset, EnvSet(""), EnvSet("true"), EnvSet("false"), EnvSet("TRUE")}

BackgroundUrls == {<<>>, <<"g">>}

ReferenceUrls == {<<"r">>}

UserImageUrls == {<<"i">>}

UrlTexts == {<<>>, <<" ">>, <<"v">>, <<" ", "w">>, <<"r">>}

FalPayloads == {NoPayload} \cup [isObject : {TRUE}, video_url : UrlTexts, videoUrl : UrlTexts]

ErrorStatuses == {NullStatus, <<500>>}

NextVideo ==
  \/ VideoCall(BOOLEAN, EnableEnvs, BackgroundUrls, ReferenceUrls, UserImageUrls)
  \/ PersonSwapCall
  \/ PersonSwapReturns(FalPayloads)
  \/ PersonSwapThrows(ErrorStatuses)
  \/ BackgroundSwapCall
  \/ BackgroundSwapReturns(FalPayloads)
  \/ BackgroundSwapThrows

SpecVideo == Init /\ [][NextVideo]_vars

VideoStarted == vid.pc # "off"

BackgroundCalls == {i \in 1..Len(vid.calls) : vid.calls[i].mode = "background"}

PersonCalls == {i \in 1..Len(vid.calls) : vid.calls[i].mode = "person"}

\* what C6 says of every request but the condition on the switch
C6_BackgroundAfterPerson ==
  /\ Cardinality(BackgroundCalls) <= 1
  /\ \A i \in BackgroundCalls :
       /\ vid.personSwap.outcome = "url"
       /\ \E j \in PersonCalls : j < i
       /\ vid.calls[i].video_url = vid.personSwap.url
  /\ vid.personSwap.outcome # "url" => BackgroundCalls = {}
  /\ vid.babyBackgroundImageUrl = <<>> => BackgroundCalls = {}

\* C6 as stated: the background swap is called only after the person swap
\* returned an output URL, at most once, on that URL; never when the person
\* swap returned no URL, never when FAL_VIDEO_ENABLE_BACKGROUND_SWAP is not
\* 'true', never when no background image URL is configured.
C6_Stated_NeverWhenSwitchIsNotTrue ==
  VideoStarted =>
    /\ C6_BackgroundAfterPerson
    /\ vid.enableEnv # EnvSet("true") => BackgroundCalls = {}

\* C6, amended: as stated, but the background swap is never called when
\* FAL_VIDEO_ENABLE_BACKGROUND_SWAP is set to a non-empty value other than
\* 'true'; unset or empty, the switch is on.
C6_NeverWhenSwitchIsSetToOther ==
  VideoStarted =>
    /\ C6_BackgroundAfterPerson
    /\ (vid.enableEnv.set /\ vid.enableEnv.value \notin {"", "true"})
         => BackgroundCalls = {}

\* the switch unset, the background swap was called on the output of the
\* person swap
C6_Witness ==
  /\ VideoStarted
  /\ vid.pc = "ended"
  /\ vid.enableEnv = EnvUnset
  /\ Len(vid.calls) = 2
  /\ vid.calls[2].mode = "background"
  /\ vid.calls[2].video_url = <<"w">>

VideoEnded == VideoStarted /\ vid.pc = "ended"

\* the URLs the swaps of this request returned
SwapUrls ==
  {s.url : s \in {x \in {vid.personSwap, vid.backgroundSwap} : x.outcome = "url"}}

\* C8: the request never ends with an exception; without a FAL key, with a
\* person swap that throws and with a person swap that returns no video URL
\* the result has usedFallback=true and the reference video as outputVideoUrl;
\* usedFallback=false only after the person swap returned a URL, and then
\* outputVideoUrl is a URL returned by a swap of this request.
C8_FallbackOnProviderFailure ==
  VideoEnded =>
    /\ vid.result.kind = "returned"
    /\ (~vid.falKey \/ vid.personSwap.outcome \in {"threw", "nourl"})
         => (vid.result.usedFallback /\ vid.result.outputVideoUrl = vid.referenceVideoUrl)
    /\ ~vid.result.usedFallback
         => (vid.personSwap.outcome = "url" /\ vid.result.outputVideoUrl \in SwapUrls)

\* a person swap that returned an object without a video URL
C8_Witness ==
  /\ VideoEnded
  /\ vid.falKey
  /\ vid.personSwap.outcome = "nourl"
  /\ vid.result.usedFallback
  /\ vid.result.providerText = MissingOutputText

\* C9: after a person swap that succeeded, a background swap that throws or
\* returns no video URL leaves the request successful: usedFallback=false,
\* outputVideoUrl is the output URL of the person swap and providerText says
\* that the background swap failed or was skipped.
C9_BackgroundFailureKeepsPersonOutput ==
  (VideoEnded /\ vid.personSwap.outcome = "url"
     /\ vid.backgroundSwap.outcome \in {"threw", "nourl"})
  => /\ vid.result.kind = "returned"
     /\ ~vid.result.usedFallback
     /\ vid.result.outputVideoUrl = vid.personSwap.url
     /\ vid.backgroundSwap.outcome = "threw" => vid.result.providerText = BackgroundFailedText
     /\ vid.backgroundSwap.outcome = "nourl" => vid.result.providerText = BackgroundSkippedText

\* the background swap threw after the person swap had returned a URL
C9_Witness ==
  /\ VideoEnded
  /\ vid.personSwap = [outcome |-> "url", url |-> <<"v">>]
  /\ vid.backgroundSwap.outcome = "threw"
  /\ vid.result.outputVideoUrl = <<"v">>


(***************************************************************************)
(* Wedding and couple photo generation (src/unnamed/part_001:518-712):     *)
(* two face swaps, the second on the output of the first.                  *)
(***************************************************************************)
\* the response of fal.subscribe of the face swap model; of the chain at
\* part_001:53-57 the fields data.image.url and image.url are modelled
ImagePayloads == [data_image_url : UrlTexts, image_url : UrlTexts]

\* part_001:52-62; no URL (undefined) is the empty text
extractImageUrlFromFalResponse(payload) ==
  LET url == IF payload.data_image_url # <<>> THEN payload.data_image_url
             ELSE payload.image_url
  IN IF Len(Trim(url)) > 0 THEN Trim(url) ELSE NoUrl

NoPhotoResult == [kind |-> "none", of |-> NoUrl, text |-> "undefined", error |-> "none"]

\* part_001:610-614 and 540-544: the image downloaded from url
PhotoReturned(url, text) == [kind |-> "returned", of |-> url, text |-> text, error |-> "none"]

PhotoRejected(error) == [kind |-> "rejected", of |-> NoUrl, text |-> "undefined", error |-> error]

MockText == "Mock response used because FAL_KEY is missing"

\* part_001:72-76: the input of one face swap
FaceSwapInput(source, target) == [source_face_url |-> source, target_image_url |-> target]

\* part_001:518-550 and 617-649: wedding generation names its first image the
\* mother's and its second the father's; without a FAL key the first image
\* is returned outside production and the call throws in production
PhotoGenerate(kinds, keys, nodeEnvs) ==
  /\ swp.pc \in {"off", "ended"}
  /\ \E kind \in kinds, k \in keys, env \in nodeEnvs :
       LET s == [pc |-> "firstSwap", kind |-> kind, falKey |-> k, nodeEnv |-> env,
                 firstImageUrl |-> <<"m">>, secondImageUrl |-> <<"f">>,
                 templateImageUrl |-> <<"t">>, calls |-> <<>>,
                 firstSwap |-> NoSwap, secondSwap |-> NoSwap, result |-> NoPhotoResult]
       IN swp' = IF k THEN s
                 ELSE IF env # "production" THEN [s EXCEPT !.pc = "mockDownload"]
                 ELSE [s EXCEPT !.pc = "ended",
                         !.result = PhotoRejected("FAL_KEY is not configured")]
  /\ UNCHANGED <<chatVars, sse, poll, vid, styleVars>>

\* part_001:538-544 and 112-117: the first image is downloaded and returned
MockDownload ==
  /\ swp.pc = "mockDownload"
  /\ \/ swp' = [swp EXCEPT !.pc = "ended",
                  !.result = PhotoReturned(swp.firstImageUrl, MockText)]
     \/ swp' = [swp EXCEPT !.pc = "ended", !.result = PhotoRejected("download failed")]
  /\ UNCHANGED <<chatVars, sse, poll, vid, styleVars>>

\* part_001:589-596 with 72-93: the first swap is submitted
FirstSwapCall ==
  /\ swp.pc = "firstSwap"
  /\ swp' = [swp EXCEPT !.pc = "firstAwait",
               !.calls = Append(@, FaceSwapInput(swp.firstImageUrl, swp.templateImageUrl))]
  /\ UNCHANGED <<chatVars, sse, poll, vid, styleVars>>

\* mutant: a first swap without an output URL does not stop the generation
FirstSwapReturns_NoOutputCheck(payloads) ==
  /\ swp.pc = "firstAwait"
  /\ \E payload \in payloads :
       LET url == extractImageUrlFromFalResponse(payload) IN
       swp' = [swp EXCEPT !.pc = "secondSwap",
                 !.firstSwap = [outcome |-> IF url = NoUrl THEN "nourl" ELSE "url",
                                url |-> url]]
  /\ UNCHANGED <<chatVars, sse, poll, vid, styleVars>>

\* part_001:94-110: the first swap returned; without an output URL
\* runHalfMoonFaceSwap throws and the generation rejects
FirstSwapReturns(payloads) ==
  /\ swp.pc = "firstAwait"
  /\ \E payload \in payloads :
       LET url == extractImageUrlFromFalResponse(payload) IN
       swp' = IF url = NoUrl
                THEN [swp EXCEPT !.pc = "ended",
                        !.firstSwap = [outcome |-> "nourl", url |-> NoUrl],
                        !.result = PhotoRejected("FAL returned no output image URL")]
                ELSE [swp EXCEPT !.pc = "secondSwap",
                        !.firstSwap = [outcome |-> "url", url |-> url]]
  /\ UNCHANGED <<chatVars, sse, poll, vid, styleVars>>

\* part_001:90-93: fal.subscribe of the first swap rejects
FirstSwapThrows ==
  /\ swp.pc = "firstAwait"
  /\ swp' = [swp EXCEPT !.pc = "ended",
               !.firstSwap = [outcome |-> "threw", url |-> NoUrl],
               !.result = PhotoRejected("first swap failed")]
  /\ UNCHANGED <<chatVars, sse, poll, vid, styleVars>>

\* part_001:597-604 with 72-93: the second swap is submitted
SecondSwapCall ==
  /\ swp.pc = "secondSwap"
  /\ swp' = [swp EXCEPT !.pc = "secondAwait",
               !.calls = Append(@, FaceSwapInput(swp.secondImageUrl, swp.firstSwap.url))]
  /\ UNCHANGED <<chatVars, sse, poll, vid, styleVars>>

\* part_001:94-110: the second swap returned
SecondSwapReturns(payloads) ==
  /\ swp.pc = "secondAwait"
  /\ \E payload \in payloads :
       LET url == extractImageUrlFromFalResponse(payload) IN
       swp' = IF url = NoUrl
                THEN [swp EXCEPT !.pc = "ended",
                        !.secondSwap = [outcome |-> "nourl", url |-> NoUrl],
                        !.result = PhotoRejected("FAL returned no output image URL")]
                ELSE [swp EXCEPT !.pc = "outputDownload",
                        !.secondSwap = [outcome |-> "url", url |-> url]]
  /\ UNCHANGED <<chatVars, sse, poll, vid, styleVars>>

\* part_001:90-93: fal.subscribe of the second swap rejects
SecondSwapThrows ==
  /\ swp.pc = "secondAwait"
  /\ swp' = [swp EXCEPT !.pc = "ended",
               !.secondSwap = [outcome |-> "threw", url |-> NoUrl],
               !.result = PhotoRejected("second swap failed")]
  /\ UNCHANGED <<chatVars, sse, poll, vid, styleVars>>

\* part_001:606-614: the output of the second swap is downloaded and returned
OutputDownload ==
  /\ swp.pc = "outputDownload"
  /\ \/ swp' = [swp EXCEPT !.pc = "ended",
                  !.result = PhotoReturned(swp.secondSwap.url, "undefined")]
     \/ swp' = [swp EXCEPT !.pc = "ended", !.result = PhotoRejected("download failed")]
  /\ UNCHANGED <<chatVars, sse, poll, vid, styleVars>>

PhotoKinds == {"wedding", "couple"}

NodeEnvs == {"production", "development"}

NextPhoto ==
  \/ PhotoGenerate(PhotoKinds, BOOLEAN, NodeEnvs)
  \/ MockDownload
  \/ FirstSwapCall
  \/ FirstSwapReturns(ImagePayloads)
  \/ FirstSwapThrows
  \/ SecondSwapCall
  \/ SecondSwapReturns(ImagePayloads)
  \/ SecondSwapThrows
  \/ OutputDownload

SpecPhoto == Init /\ [][NextPhoto]_vars

PhotoStarted == swp.pc # "off"

\* the calls made are the first swap, then the second on the first's output
TwoSwapsInSequence ==
  /\ Len(swp.calls) = 2
  /\ swp.calls[1] = FaceSwapInput(swp.firstImageUrl, swp.templateImageUrl)
  /\ swp.firstSwap.outcome = "url"
  /\ swp.calls[2] = FaceSwapInput(swp.secondImageUrl, swp.firstSwap.url)

\* a first swap that failed or returned no URL: no second call, and the
\* generation fails
FirstFailureStops ==
  swp.firstSwap.outcome \in {"threw", "nourl"}
    => (Len(swp.calls) = 1 /\ swp.pc = "ended" /\ swp.result.kind = "rejected")

\* no more than two calls, in this order, at any time
SwapOrder ==
  /\ Len(swp.calls) <= 2
  /\ Len(swp.calls) >= 1
       => swp.calls[1] = FaceSwapInput(swp.firstImageUrl, swp.templateImageUrl)
  /\ Len(swp.calls) = 2
       => (swp.firstSwap.outcome = "url"
           /\ swp.calls[2] = FaceSwapInput(swp.secondImageUrl, swp.firstSwap.url))

\* C7 as stated: a generation that returns an image made exactly two face
\* swap calls, the first with the mother/first face on the template, the
\* second with the father/second face on the output URL of the first; after a
\* first call that failed or returned no URL the second is never made and the
\* generation fails.
C7_Stated_EveryImageFromTwoSwaps ==
  PhotoStarted =>
    /\ SwapOrder
    /\ FirstFailureStops
    /\ (swp.pc = "ended" /\ swp.result.kind = "returned") => TwoSwapsInSequence

\* C7, amended: as stated for a generation with a FAL key configured; without
\* a key no swap call is made: outside production the mother/first image is
\* returned as a mock, in production the generation fails.
C7_TwoSwapsWhenKeyConfigured ==
  PhotoStarted =>
    /\ SwapOrder
    /\ FirstFailureStops
    /\ (swp.falKey /\ swp.pc = "ended" /\ swp.result.kind = "returned")
         => (TwoSwapsInSequence /\ swp.result.of = swp.secondSwap.url)
    /\ ~swp.falKey => Len(swp.calls) = 0
    /\ (~swp.falKey /\ swp.pc = "ended")
         => IF swp.nodeEnv = "production" THEN swp.result.kind = "rejected"
            ELSE swp.result \in {PhotoReturned(swp.firstImageUrl, MockText),
                                 PhotoRejected("download failed")}

\* both swaps returned a URL and the output of the second was returned
C7_Witness ==
  /\ PhotoStarted
  /\ swp.pc = "ended"
  /\ swp.falKey
  /\ swp.result.kind = "returned"
  /\ swp.calls[2].target_image_url = <<"w">>
  /\ swp.result.of = <<"v">>


(***************************************************************************)
(* Claims on the validation of POST /chat and on refusals.                 *)
(***************************************************************************)
\* a chat request without a message, or with an image that is not valid
InvalidChatRequest(r) ==
  /\ r.kind = "chat"
  /\ \/ r.message = <<>>
     \/ r.image # NoImage /\ ~ImageValid(r.image)

\* C11: a POST /chat without a message or with an image whose data or
\* mimeType is not a string or whose mimeType is not an image type is answered
\* 400; no step taken for it writes a users_info, chat_sessions or
\* chat_messages document or calls the provider.
C11_InvalidRequestAnswered400 ==
  [][\A p \in Procs :
       InvalidChatRequest(req'[p]) =>
         /\ resp'[p] = [status |-> 400]
         /\ pc'[p] = "done"
         /\ chatStore' = chatStore
         /\ oplog'[p] = <<>>
         /\ events'[p] = <<>>]_vars

\* a request with a message and an image whose data is not a string was
\* answered 400
C11_Witness ==
  \E p \in Procs :
    /\ req[p].kind = "chat"
    /\ req[p].message # <<>>
    /\ ~req[p].image.dataIsString /\ req[p].image.mimeIsString
    /\ resp[p] = [status |-> 400]

(***************************************************************************)
(* SpecRefusal: chat requests, refused and not, streaming and not, on a    *)
(* session that already holds a long conversation and on new sessions.     *)
(***************************************************************************)
\* Messages the long session holds at the start.
Backlog == 48

InitLong ==
  /\ sessions = [s \in SessionIds |->
                   IF s = "s1" THEN SessionDoc("u1", NoTitle, "chat") ELSE NoDoc]
  /\ messages = [i \in 1..Backlog |->
                   MessageDoc(i, "s1", IF i % 2 = 1 THEN "user" ELSE "assistant",
                              <<"m">>, "none")]
  /\ usersInfo = {"u1"}
  /\ nextId = Backlog + 1
  /\ nextAuto = 2
  /\ reqCount = 0
  /\ pc = [p \in Procs |-> "idle"]
  /\ req = [p \in Procs |-> NoReq]
  /\ loc = [p \in Procs |-> LocInit]
  /\ events = [p \in Procs |-> <<>>]
  /\ oplog = [p \in Procs |-> <<>>]
  /\ resp = [p \in Procs |-> NoResp]
  /\ OthersOff

NextRefusal ==
  \E p \in SeqProcs :
    \/ Quiet /\ PostChat(p, {"u1"}, {"s1", NoSession},
                         {<<"merhaba">>, <<"PDF">>, <<"Create", "logo">>},
                         BOOLEAN, {NoImage})
    \/ EnsureUserInfo(p)
    \/ CreateSession(p)
    \/ WriteUserMessage(p)
    \/ ReadRecent(p)
    \/ ChatReply(p)
    \/ ProviderReturn(p, StoreReplyTexts)
    \/ WriteAssistant(p)
    \/ TouchSession(p)
    \/ ChatRespond(p)
    \/ StreamSetup(p)
    \/ OpenStream(p)
    \/ StreamLine(p, StoreStreamLines)
    \/ StreamEnd(p)
    \/ StreamError(p)
    \/ CatchStream(p)
    \/ Fallback(p, StoreReplyTexts)
    \/ FinalizeWrite(p)
    \/ FinalizeTouch(p)
    \/ FinalizeSummary(p)
    \/ Retire(p)

SpecRefusal == InitLong /\ [][NextRefusal]_vars

\* a chat request whose message shouldRefuseCoachRequest refuses
Refused(p) == req[p].kind = "chat" /\ shouldRefuseCoachRequest(req[p].message)

RefusalChunk == Chunk(COACH_REFUSAL_MESSAGE, COACH_REFUSAL_MESSAGE, TRUE, NoError)

\* the refusal message is the reply of the request and, once the request has
\* succeeded, the content of its assistant message in the store
RefusalIsTheReply(p) ==
  IF req[p].stream
  THEN /\ events[p] \in {<<>>, <<RefusalChunk>>}
       /\ pc[p] \in {"finWrite", "finTouch", "finSummary", "runDone", "runRejected"}
            => events[p] = <<RefusalChunk>>
       /\ pc[p] = "runDone"
            => StoreHolds(loc[p].asstId, loc[p].sessionId, "assistant",
                          COACH_REFUSAL_MESSAGE)
  ELSE (pc[p] = "done" /\ resp[p].status = 200)
         => /\ resp[p].reply = COACH_REFUSAL_MESSAGE
            /\ StoreHolds(loc[p].asstId, loc[p].sessionId, "assistant",
                          COACH_REFUSAL_MESSAGE)

CallsIn(p, tags) == {i \in 1..Len(oplog[p]) : oplog[p][i] \in tags}

\* C13 (as claimed): for a message shouldRefuseCoachRequest refuses, neither
\* handleChatMessage nor the streaming run calls the language provider; the
\* fixed refusal message is the reply (in streaming a single final chunk) and
\* is persisted as the assistant message.
C13_Stated_NoProviderCallAtAll ==
  \A p \in Procs :
    Refused(p) =>
      /\ CallsIn(p, {"providerCall", "providerStream", "summaryCall"}) = {}
      /\ RefusalIsTheReply(p)

\* C13 (amended): for a message shouldRefuseCoachRequest refuses, the
\* language provider is never called to produce the reply, the fixed refusal
\* message is the reply (in streaming a single final chunk) and is persisted
\* as the assistant message; the only provider call such a request can make
\* is the summary refresh of maybeUpdateSummary, and only in a session that
\* holds at least SUMMARY_WINDOW messages.
C13_RefusedWithoutReplyCall ==
  \A p \in Procs :
    Refused(p) =>
      /\ CallsIn(p, {"providerCall", "providerStream", "providerReturn"}) = {}
      /\ RefusalIsTheReply(p)
      /\ CallsIn(p, {"summaryCall"}) # {}
           => Len(SessionMessages(loc[p].sessionId)) >= SUMMARY_WINDOW

\* a refused streaming request on the long session has resolved
C13_Witness ==
  \E p \in Procs :
    /\ Refused(p)
    /\ req[p].stream
    /\ pc[p] = "runDone"
    /\ events[p] = <<RefusalChunk>>
    /\ Len(SessionMessages(loc[p].sessionId)) >= SUMMARY_WINDOW


\* a line of the stream that carries nothing: empty, the [DONE] sentinel, not
\* valid JSON, or JSON without candidate text
CarriesNothing(line) ==
  \/ line.kind \in {"blank", "done", "garbage"}
  \/ extractCandidateText(line.candidate) = <<>>

\* handleLine was called in this step of request p
LineHandled(p) == pc[p] = "streaming" /\ loc'[p].nEvents = loc[p].nEvents + 1

\* C21: in streamCoachResponse a line that is empty, is '[DONE]', is not valid
\* JSON or carries no candidate text produces no onDelta call, leaves the
\* accumulated text unchanged and neither rejects nor ends the stream, so the
\* lines after it are handled as if it had not arrived; onDelta is never
\* called with an empty delta.
C21_EmptyLinesAreSkipped ==
  [][\A p \in Procs :
       LineHandled(p) =>
         /\ pc'[p] = "streaming"
         /\ CarriesNothing(loc'[p].line) =>
              /\ events'[p] = events[p]
              /\ loc'[p].fullText = loc[p].fullText
              /\ loc'[p].latestText = loc[p].latestText
              /\ loc'[p].sentAny = loc[p].sentAny
         /\ events'[p] # events[p] =>
              /\ Len(events'[p]) = Len(events[p]) + 1
              /\ SubSeq(events'[p], 1, Len(events[p])) = events[p]
              /\ events'[p][Len(events'[p])].delta \notin {<<>>, Absent}
              /\ loc'[p].fullText = loc[p].fullText \o events'[p][Len(events'[p])].delta
    ]_vars

\* a line that carried nothing was followed by a line whose text was relayed
C21_Witness ==
  \E p \in Procs :
    /\ pc[p] = "streaming"
    /\ loc[p].nEvents = 2
    /\ Len(loc[p].received) = 1
    /\ loc[p].line.kind = "json"
    /\ Len(events[p]) = 1
    /\ events[p][1].delta = loc[p].fullText
    /\ loc[p].fullText # <<>>

\* the session a request names exists and belongs to the user of the request
OwnsSession(p) ==
  /\ sessions[req[p].sessionId] # NoDoc
  /\ sessions[req[p].sessionId].user_id = req[p].user

\* C22 (as claimed): chat messages are written into and read from a session
\* only by its owner: whenever POST /chat with a sessionId has written a
\* message, and whenever GET /chat/sessions/:id/messages has returned
\* messages, the session exists and its user_id is the authenticated user.
C22_OnlyTheOwnerWritesAndReads ==
  \A p \in Procs :
    /\ (/\ req[p].kind = "chat"
        /\ req[p].sessionId # NoSession
        /\ CallsIn(p, {"userMessage", "assistantMessage"}) # {})
         => OwnsSession(p)
    /\ (/\ req[p].kind = "messages"
        /\ pc[p] = "done"
        /\ resp[p].status = 200
        /\ resp[p].messages # <<>>)
         => OwnsSession(p)

\* the stream of a streaming request has ended and its text was resolved
StreamResolved(p) == req[p].kind = "chat" /\ pc[p] = "finWrite" /\ loc[p].phase = "try"

\* C18 (as claimed): when each event of the stream carries only new text, the
\* resolved text and the concatenation of the deltas given to onDelta both
\* equal the concatenation of the candidate texts of the events, for every
\* sequence of events.
C18_DeltasRebuildTheCandidateTexts ==
  \A p \in Procs :
    StreamResolved(p) =>
      /\ loc[p].persist = JoinParts(loc[p].received)
      /\ ConcatDeltas(events[p]) = JoinParts(loc[p].received)

\* the stream of a streaming request failed, the catch block of runStream
\* has sent its chunk, and no final chunk had been sent before
StreamFailureHandled(p) ==
  /\ req[p].kind = "chat" /\ req[p].stream
  /\ loc[p].phase = "catch"
  /\ Cardinality(FinalIndexes(p)) = 1

\* the deltas relayed before the final chunk, concatenated
RelayedText(p) == ConcatDeltas(SubSeq(events[p], 1, Len(events[p]) - 1))

\* what the catch block does after a failure of the stream, the calls of the
\* provider it makes being those with the given tags
StreamFailureBehaviour(p, tags) ==
  LET final == events[p][Len(events[p])] IN
  /\ final.isFinal
  /\ loc[p].persist = final.content
  /\ pc[p] = "runDone"
       => StoreHolds(loc[p].asstId, loc[p].sessionId, "assistant", final.content)
  /\ IF final.error = NoError
     THEN /\ Len(events[p]) = 1
          /\ final.delta = final.content
          /\ Cardinality(CallsIn(p, tags)) = 1
          /\ CallsIn(p, {"providerCall"}) # {}
     ELSE /\ Len(events[p]) > 1
          /\ final.error = "Streaming failed"
          /\ final.content = RelayedText(p)
          /\ CallsIn(p, tags) = {}

Truthy(text) == text # NoTitle /\ text # <<>>

DEFAULT_SESSION_TITLE == <<"Genel Danismanlik">>

\* what child?.name || session.child_name evaluates to: a name, or nothing
ChildNames == {<<>>, <<"c">>}

\* mutant: the name of the child comes before the custom title
ListedTitle_ChildFirst(doc, childName) ==
  IF childName # <<>> THEN childName
  ELSE IF Truthy(doc.custom_title) THEN doc.custom_title
  ELSE DEFAULT_SESSION_TITLE

\* chatService.ts:96: session.custom_title || child?.name ||
\* session.child_name || 'Genel Danismanlik'
ListedTitle(doc, childName) ==
  IF Truthy(doc.custom_title) THEN doc.custom_title
  ELSE IF childName # <<>> THEN childName
  ELSE DEFAULT_SESSION_TITLE

\* chatService.ts:73-77: the sessions listChatSessions returns to a user
ListedTo(docs, user) ==
  {s \in SessionIds : docs[s] # NoDoc /\ docs[s].user_id = user}

NextSessions ==
  \E p \in SeqProcs :
    \/ Quiet /\ PostChat(p, Users, {"s1", NoSession}, {<<"merhaba">>}, BOOLEAN,
                         {NoImage})
    \/ Quiet /\ DeleteRequest(p, Users, {"s1"})
    \/ Quiet /\ RenameRequest(p, Users, {"s1"}, TitleInputs)
    \/ EnsureUserInfo(p)
    \/ CreateSession(p)
    \/ WriteUserMessage(p)
    \/ ReadRecent(p)
    \/ ChatReply(p)
    \/ ProviderReturn(p, StoreReplyTexts)
    \/ WriteAssistant(p)
    \/ TouchSession(p)
    \/ ChatRespond(p)
    \/ StreamSetup(p)
    \/ OpenStream(p)
    \/ StreamLine(p, StoreStreamLines)
    \/ StreamEnd(p)
    \/ StreamError(p)
    \/ CatchStream(p)
    \/ Fallback(p, StoreReplyTexts)
    \/ FinalizeWrite(p)
    \/ FinalizeTouch(p)
    \/ FinalizeSummary(p)
    \/ SessionGet(p)
    \/ DeleteQuery(p)
    \/ DeleteCommit(p)
    \/ RenameSet(p)
    \/ Retire(p)

SpecSessions == InitLong /\ [][NextSessions]_vars

\* renameChatSession returns updated = true for session s in this step
RenameReturns(p, s) ==
  /\ req[p].kind = "rename"
  /\ req[p].sessionId = s
  /\ pc[p] = "renameSet"
  /\ resp'[p].status = 200

\* deleteChatSession commits the deletion of session s in this step
DeleteCommits(p, s) ==
  /\ req[p].kind = "delete"
  /\ req[p].sessionId = s
  /\ pc[p] = "deleteCommit"
  /\ resp'[p].status = 200

\* C16: after renameChatSession returned updated = true, listChatSessions
\* returns that session to its owner with title equal to title.trim(),
\* whatever the name of the child is, until the session is renamed again or
\* deleted.
C16_RenamedTitleIsListed ==
  [][\A s \in SessionIds :
       /\ \A p \in Procs :
            RenameReturns(p, s) =>
              /\ s \in ListedTo(sessions', req[p].user)
              /\ \A childName \in ChildNames :
                   ListedTitle(sessions'[s], childName) = Trim(req[p].title)
       /\ (/\ sessions[s] # NoDoc
           /\ Truthy(sessions[s].custom_title)
           /\ \A p \in Procs : ~RenameReturns(p, s) /\ ~DeleteCommits(p, s))
            => /\ s \in ListedTo(sessions', sessions[s].user_id)
               /\ \A childName \in ChildNames :
                    ListedTitle(sessions'[s], childName) = sessions[s].custom_title
    ]_vars

\* a chat request was answered on a session that had been renamed before
C16_Witness ==
  \E p \in Procs :
    /\ req[p].kind = "chat"
    /\ pc[p] = "done"
    /\ resp[p].status = 200
    /\ loc[p].sessionId = "s1"
    /\ sessions["s1"] # NoDoc
    /\ sessions["s1"].custom_title = <<"t">>
    /\ sessions["s1"].updated_at = "chat"

(***************************************************************************)
(* The generation routes of /styles (styles.ts:332-1153): the request is   *)
(* validated, its input images are resolved and stored, the provider is    *)
(* called, the output is stored and a generatedPhotos record is written.   *)
(***************************************************************************)
\* the /styles requests accepted
MaxStyleRequests == 2

\* the values of randomUUID, in the order they are drawn
GenIds == <<"g1", "g2", "g3", "g4">>

\* the values of Date.now() of the requests, as they appear in upload names
Times == <<"t1", "t2", "t3", "t4">>

\* a storage object path: users/{user}/{folder}/{name}
Path(user, folder, name) == [user |-> user, folder |-> folder, name |-> name]

NoPath == Path("none", "none", "none")

\* an image source of a request body: missing, an external URL, or a value
\* that resolveStorageObjectPath (styles.ts:124-151) turns into an object path
SourceNone == [kind |-> "none", path |-> NoPath]

SourceUrl == [kind |-> "url", path |-> NoPath]

SourcePath(path) == [kind |-> "path", path |-> path]

\* styles.ts:56-84: of STYLE_PROMPT_BY_ID one lifestyle, one studio and one
\* newborn key
STYLE_PROMPT_IDS == {"l1", "s1", "n1"}

\* styles.ts:94-99; the empty string is a style_id that is missing
resolveStylePrompt(styleId) == styleId \in STYLE_PROMPT_IDS

\* styles.ts:459: styleId.startsWith('n')
StartsWithN(styleId) == styleId \in {"n1", "nz"}

\* styles.ts:100-103: every style id has a reference video
resolveVideoReferenceUrl(styleId) == <<"r">>

\* getSignedOrPublicUrl (styles.ts:248-261) never throws
SignedUrl(path) == <<"signed", path.user, path.folder, path.name>>

StyResp(status) == [status |-> status]

\* the locals of a request at its arrival
StyRequest(endpoint, user, styleId, hasFile, first, second, tmpl, n) ==
  [pc |-> "arrived", n |-> n, endpoint |-> endpoint, user |-> user,
   styleId |-> styleId, hasFile |-> hasFile, first |-> first, second |-> second,
   tmpl |-> tmpl, selected |-> FALSE, inputPath |-> NoPath, toSave |-> <<>>,
   providerCalls |-> 0, writes |-> <<>>, records |-> <<>>, generatedId |-> "none",
   outputPath |-> NoPath, usedFallback |-> FALSE, outputVideoUrl |-> NoUrl,
   toDelete |-> <<>>, deleteFailed |-> FALSE, resp |-> StyResp(0)]

StyEnd(r, status) == [r EXCEPT !.pc = "ended", !.resp = StyResp(status)]

\* the catch blocks of the routes (styles.ts:409-423, 610-624, 780-786,
\* 964-970, 1140-1152): 500, or 503 for a configuration error
StyFails ==
  \E status \in (IF sty.endpoint \in {"photo", "newborn"} THEN {500, 503} ELSE {500}) :
    sty' = StyEnd(sty, status)

\* the synchronous validation of each route up to its first await:
\* styles.ts:359-381, 459-481, 670-676, 837-843, 1003-1026
StyValidated(r) ==
  CASE r.endpoint = "photo" ->
         IF ~r.hasFile \/ ~resolveStylePrompt(r.styleId)
           THEN StyEnd(r, 400) ELSE [r EXCEPT !.pc = "provider"]
    [] r.endpoint = "newborn" ->
         IF r.styleId = "" \/ ~StartsWithN(r.styleId) \/ ~resolveStylePrompt(r.styleId)
           THEN StyEnd(r, 400)
         ELSE IF ~r.hasFile /\ r.first = SourceNone
           THEN StyEnd(r, 400)
         ELSE IF r.hasFile
           THEN [r EXCEPT !.pc = "saveInputs",
                   !.inputPath = Path(r.user, "uploads/newborn", Times[r.n]),
                   !.toSave = <<Path(r.user, "uploads/newborn", Times[r.n])>>]
         ELSE [r EXCEPT !.pc = "resolve"]
    [] r.endpoint = "wedding" ->
         IF r.styleId = "" \/ r.first = SourceNone \/ r.second = SourceNone
           THEN StyEnd(r, 400) ELSE [r EXCEPT !.pc = "templates"]
    [] r.endpoint = "couple" ->
         IF r.first = SourceNone \/ r.second = SourceNone
              \/ (r.styleId = "" /\ r.tmpl = SourceNone)
           THEN StyEnd(r, 400) ELSE [r EXCEPT !.pc = "templates"]
    [] r.endpoint = "video" ->
         IF resolveVideoReferenceUrl(r.styleId) = NoUrl \/ r.first = SourceNone
           THEN StyEnd(r, 400) ELSE [r EXCEPT !.pc = "videoCall"]

\* a request arrives at one of the generation routes and is validated
StyleRequest(endpoints, users, styleIds, files, firsts, seconds, tmpls) ==
  /\ sty.pc = "off"
  /\ sty.n < MaxStyleRequests
  /\ nextGenId <= Len(GenIds)
  /\ \E e \in endpoints, u \in users, id \in styleIds, f \in files,
        a \in firsts, b \in seconds, t \in tmpls :
       sty' = StyValidated(StyRequest(e, u, id, f, a, b, t, sty.n + 1))
  /\ UNCHANGED <<chatVars, sse, poll, vid, swp, storageObjects, generatedPhotos, nextGenId>>

\* styles.ts:678-683 and 845-852: the templates are listed from storage and
\* the one the style id names is looked up
StyleTemplates ==
  /\ sty.pc = "templates"
  /\ \/ \E found \in BOOLEAN :
          LET selected == sty.styleId # "" /\ found IN
          sty' = IF sty.endpoint = "wedding"
                   THEN (IF ~selected THEN StyEnd(sty, 400)
                         ELSE [sty EXCEPT !.pc = "resolve", !.selected = TRUE])
                   ELSE (IF sty.styleId # "" /\ ~selected /\ sty.tmpl = SourceNone
                           THEN StyEnd(sty, 400)
                         ELSE [sty EXCEPT !.pc = "resolve", !.selected = selected])
     \/ StyFails
  /\ UNCHANGED <<chatVars, sse, poll, vid, swp, storageObjects, generatedPhotos, nextGenId>>

\* downloadImageFromSource (styles.ts:182-213) can succeed for an object that
\* exists and for a URL
Resolvable(source) ==
  \/ source.kind = "url"
  \/ source.kind = "path" /\ source.path \in storageObjects

\* styles.ts:190 and 209: objectPath of the resolved image
ObjectPathOf(source) ==
  IF source.kind = "path" /\ source.path \in storageObjects THEN source.path ELSE NoPath

\* styles.ts:503-520, 686-693 and 855-871: the input images are downloaded;
\* nothing is written
StyleResolve ==
  /\ sty.pc = "resolve"
  /\ \/ /\ sty.endpoint = "newborn"
        /\ Resolvable(sty.first)
        /\ sty' = [sty EXCEPT !.pc = "provider",
                     !.inputPath = IF ObjectPathOf(sty.first) # NoPath
                                     THEN ObjectPathOf(sty.first)
                                     ELSE Path(sty.user, "uploads/newborn", Times[sty.n])]
     \/ /\ sty.endpoint = "wedding"
        /\ Resolvable(sty.first) /\ Resolvable(sty.second)
        /\ sty' = [sty EXCEPT !.pc = "saveInputs",
                     !.toSave = <<Path(sty.user, "uploads/wedding-mother", Times[sty.n]),
                                  Path(sty.user, "uploads/wedding-father", Times[sty.n])>>]
     \/ /\ sty.endpoint = "couple"
        /\ Resolvable(sty.first) /\ Resolvable(sty.second)
        /\ sty' = IF sty.tmpl = SourceNone /\ ~sty.selected
                    THEN StyEnd(sty, 400)
                    ELSE [sty EXCEPT !.pc = "saveInputs",
                            !.toSave = <<Path(sty.user, "uploads/couple-first", Times[sty.n]),
                                         Path(sty.user, "uploads/couple-second", Times[sty.n])>>]
     \/ StyFails
  /\ UNCHANGED <<chatVars, sse, poll, vid, swp, storageObjects, generatedPhotos, nextGenId>>

\* styles.ts:496-502, 695-704 and 873-882: one input image is saved; the
\* check of styles.ts:510-520 that follows never answers 400, the buffer of an
\* uploaded file and of a downloaded image being a Buffer object
StyleSaveInput ==
  /\ sty.pc = "saveInputs"
  /\ \/ /\ storageObjects' = storageObjects \cup {Head(sty.toSave)}
        /\ sty' = [sty EXCEPT !.toSave = Tail(@),
                     !.writes = Append(@, Head(sty.toSave)),
                     !.pc = IF Len(sty.toSave) = 1 THEN "provider" ELSE "saveInputs"]
     \/ StyFails /\ UNCHANGED storageObjects
  /\ UNCHANGED <<chatVars, sse, poll, vid, swp, generatedPhotos, nextGenId>>

\* the folder of the generated image: styles.ts:548, 719 and 897
GeneratedFolder(endpoint) ==
  CASE endpoint = "newborn" -> "generated/newborn"
    [] endpoint = "wedding" -> "generated/wedding"
    [] endpoint = "couple" -> "generated/cift_cekimi"
    [] endpoint = "video" -> "generated/video"
    [] OTHER -> "none"

\* mutant: a failure of the provider is answered 400
StyleProvider_Answers400 ==
  /\ sty.pc = "provider"
  /\ \/ /\ sty.endpoint = "photo"
        /\ sty' = [StyEnd(sty, 200) EXCEPT !.providerCalls = @ + 1]
        /\ UNCHANGED nextGenId
     \/ /\ sty.endpoint # "photo"
        /\ sty' = [sty EXCEPT !.pc = "saveOutput", !.providerCalls = @ + 1,
                     !.generatedId = GenIds[nextGenId],
                     !.outputPath = Path(sty.user, GeneratedFolder(sty.endpoint),
                                         GenIds[nextGenId])]
        /\ nextGenId' = nextGenId + 1
     \/ /\ sty' = [StyEnd(sty, 400) EXCEPT !.providerCalls = @ + 1]
        /\ UNCHANGED nextGenId
  /\ UNCHANGED <<chatVars, sse, poll, vid, swp, storageObjects, generatedPhotos>>

\* styles.ts:383-408, 539-549, 706-720 and 884-898: the image provider is
\* called; generate-photo answers with the image, the other routes draw the
\* id of the generated image; a provider that throws is answered 500 or 503
StyleProvider ==
  /\ sty.pc = "provider"
  /\ \/ /\ sty.endpoint = "photo"
        /\ sty' = [StyEnd(sty, 200) EXCEPT !.providerCalls = @ + 1]
        /\ UNCHANGED nextGenId
     \/ /\ sty.endpoint # "photo"
        /\ sty' = [sty EXCEPT !.pc = "saveOutput", !.providerCalls = @ + 1,
                     !.generatedId = GenIds[nextGenId],
                     !.outputPath = Path(sty.user, GeneratedFolder(sty.endpoint),
                                         GenIds[nextGenId])]
        /\ nextGenId' = nextGenId + 1
     \/ /\ \E status \in (IF sty.endpoint \in {"photo", "newborn"} THEN {500, 503} ELSE {500}) :
             sty' = [StyEnd(sty, status) EXCEPT !.providerCalls = @ + 1]
        /\ UNCHANGED nextGenId
  /\ UNCHANGED <<chatVars, sse, poll, vid, swp, storageObjects, generatedPhotos>>

\* styles.ts:1038-1044: generateStyledVideoWithVeo is called with the user
\* image and the reference video of the style
StyleVideoCall(keys, enables, backgrounds) ==
  /\ sty.pc = "videoCall"
  /\ vid.pc \in {"off", "ended"}
  /\ \E k \in keys, e \in enables, b \in backgrounds :
       vid' = VideoStart(k, e, b, resolveVideoReferenceUrl(sty.styleId), <<"i">>)
  /\ sty' = [sty EXCEPT !.pc = "awaitVideo", !.providerCalls = @ + 1]
  /\ UNCHANGED <<chatVars, sse, poll, swp, storageObjects, generatedPhotos, nextGenId>>

\* mutant: the output is stored whatever the provider result says
StyleVideoResult_AlwaysStores ==
  /\ sty.pc = "awaitVideo"
  /\ vid.pc = "ended"
  /\ sty' = [sty EXCEPT !.pc = "download",
               !.generatedId = GenIds[nextGenId],
               !.usedFallback = vid.result.usedFallback,
               !.outputVideoUrl = vid.result.outputVideoUrl,
               !.inputPath = IF sty.first.kind = "path" THEN sty.first.path
                             ELSE Path(sty.user, "uploads/video", Times[sty.n])]
  /\ nextGenId' = nextGenId + 1
  /\ vid' = Off
  /\ UNCHANGED <<chatVars, sse, poll, swp, storageObjects, generatedPhotos>>

\* styles.ts:1055-1064: the provider result arrived and the call is over; the
\* id of the record is drawn, the input path is the one the user image source
\* resolves to
StyleVideoResult ==
  /\ sty.pc = "awaitVideo"
  /\ vid.pc = "ended"
  /\ sty' = [sty EXCEPT !.pc = IF vid.result.usedFallback THEN "record" ELSE "download",
               !.generatedId = GenIds[nextGenId],
               !.usedFallback = vid.result.usedFallback,
               !.outputVideoUrl = vid.result.outputVideoUrl,
               !.inputPath = IF sty.first.kind = "path" THEN sty.first.path
                             ELSE Path(sty.user, "uploads/video", Times[sty.n])]
  /\ nextGenId' = nextGenId + 1
  /\ vid' = Off
  /\ UNCHANGED <<chatVars, sse, poll, swp, storageObjects, generatedPhotos>>

\* styles.ts:1065-1068 with 215-246: the generated video is downloaded
StyleVideoDownload ==
  /\ sty.pc = "download"
  /\ \/ sty' = [sty EXCEPT !.pc = "saveOutput",
                  !.outputPath = Path(sty.user, GeneratedFolder("video"), sty.generatedId)]
     \/ StyFails
  /\ UNCHANGED <<chatVars, sse, poll, vid, swp, storageObjects, generatedPhotos, nextGenId>>

\* styles.ts:551-560, 721-729, 899-907 and 1070-1077: the output is saved
\* under users/{userId}/generated/ and its URL is signed
StyleSaveOutput ==
  /\ sty.pc = "saveOutput"
  /\ \/ /\ storageObjects' = storageObjects \cup {sty.outputPath}
        /\ sty' = [sty EXCEPT !.pc = "record", !.writes = Append(@, sty.outputPath),
                     !.outputVideoUrl = IF sty.endpoint = "video"
                                          THEN SignedUrl(sty.outputPath) ELSE @]
     \/ StyFails /\ UNCHANGED storageObjects
  /\ UNCHANGED <<chatVars, sse, poll, vid, swp, generatedPhotos, nextGenId>>

\* styles.ts:568-582, 737-754, 921-938 and 1094-1111: the fields of the
\* record that the routes read again; a field that is null is NoPath
GeneratedRecord(r) ==
  [user |-> r.user, id |-> r.generatedId,
   styleType |-> CASE r.endpoint = "newborn" -> "yenidogan"
                   [] r.endpoint = "wedding" -> "wedding"
                   [] r.endpoint = "couple" -> "cift_cekimi"
                   [] OTHER -> "video",
   outputImagePath |-> IF r.endpoint = "video" THEN NoPath ELSE r.outputPath,
   outputVideoPath |-> IF r.endpoint = "video" THEN r.outputPath ELSE NoPath,
   outputVideoUrl |-> IF r.endpoint = "video" THEN r.outputVideoUrl ELSE NoUrl,
   inputImagePath |-> IF r.endpoint \in {"newborn", "video"} THEN r.inputPath ELSE NoPath,
   usedFallback |-> r.usedFallback]

\* styles.ts:563-609, 732-779, 916-963 and 1089-1139: the record is written
\* and the request answered 200
StyleRecord ==
  /\ sty.pc = "record"
  /\ \/ /\ generatedPhotos' = generatedPhotos \cup {GeneratedRecord(sty)}
        /\ sty' = [StyEnd(sty, 200) EXCEPT !.records = Append(@, GeneratedRecord(sty))]
     \/ StyFails /\ UNCHANGED generatedPhotos
  /\ UNCHANGED <<chatVars, sse, poll, vid, swp, storageObjects, nextGenId>>


(***************************************************************************)
(* DELETE /styles/history/:id (styles.ts:1221-1269).                       *)
(***************************************************************************)
\* styles.ts:1229-1237: the request arrives; a route parameter is not empty
HistoryDelete(users, ids) ==
  /\ sty.pc = "off"
  /\ sty.n < MaxStyleRequests
  /\ \E u \in users, id \in ids :
       sty' = [StyRequest("history", u, "", FALSE, SourceNone, SourceNone, SourceNone,
                          sty.n + 1)
                 EXCEPT !.pc = "historyGet", !.generatedId = id]
  /\ UNCHANGED <<chatVars, sse, poll, vid, swp, storageObjects, generatedPhotos, nextGenId>>

\* the record users/{user}/generatedPhotos/{id}, when there is one
RecordsOf(user, id) == {g \in generatedPhotos : g.user = user /\ g.id = id}

\* styles.ts:1246-1247: the paths of the record that are set
RecordPaths(g) ==
  SelectSeq(<<g.outputImagePath, g.outputVideoPath, g.inputImagePath>>,
            LAMBDA path : path # NoPath)

\* mutant: the record is looked up by its id alone
HistoryGet_AnyUser ==
  /\ sty.pc = "historyGet"
  /\ \/ /\ \A g \in generatedPhotos : g.id # sty.generatedId
        /\ sty' = StyEnd(sty, 404)
     \/ \E g \in generatedPhotos :
          /\ g.id = sty.generatedId
          /\ sty' = [sty EXCEPT !.toDelete = RecordPaths(g), !.user = g.user,
                       !.pc = IF RecordPaths(g) = <<>> THEN "deleteRecord"
                              ELSE "deleteObjects"]
     \/ StyFails
  /\ UNCHANGED <<chatVars, sse, poll, vid, swp, storageObjects, generatedPhotos, nextGenId>>

\* styles.ts:1237-1247: the record is read; 404 when it does not exist
HistoryGet ==
  /\ sty.pc = "historyGet"
  /\ \/ /\ RecordsOf(sty.user, sty.generatedId) = {}
        /\ sty' = StyEnd(sty, 404)
     \/ \E g \in RecordsOf(sty.user, sty.generatedId) :
          sty' = [sty EXCEPT !.toDelete = RecordPaths(g),
                    !.pc = IF RecordPaths(g) = <<>> THEN "deleteRecord"
                           ELSE "deleteObjects"]
     \/ StyFails
  /\ UNCHANGED <<chatVars, sse, poll, vid, swp, storageObjects, generatedPhotos, nextGenId>>

\* styles.ts:1249-1255: one storage object of the record is deleted; a
\* failure is logged and the loop goes on
HistoryDeleteObject ==
  /\ sty.pc = "deleteObjects"
  /\ LET path == Head(sty.toDelete)
         next == IF Len(sty.toDelete) = 1 THEN "deleteRecord" ELSE "deleteObjects"
     IN \/ /\ path \in storageObjects
           /\ storageObjects' = storageObjects \ {path}
           /\ sty' = [sty EXCEPT !.toDelete = Tail(@), !.pc = next]
        \/ /\ UNCHANGED storageObjects
           /\ sty' = [sty EXCEPT !.toDelete = Tail(@), !.pc = next,
                        !.deleteFailed = TRUE]
  /\ UNCHANGED <<chatVars, sse, poll, vid, swp, generatedPhotos, nextGenId>>

\* styles.ts:1257-1264: the record is deleted and success returned
HistoryDeleteRecord ==
  /\ sty.pc = "deleteRecord"
  /\ \/ /\ generatedPhotos' = generatedPhotos \ RecordsOf(sty.user, sty.generatedId)
        /\ sty' = StyEnd(sty, 200)
     \/ StyFails /\ UNCHANGED generatedPhotos
  /\ UNCHANGED <<chatVars, sse, poll, vid, swp, storageObjects, nextGenId>>

\* the handler of an answered request is over
StyleRetire ==
  /\ sty.pc = "ended"
  /\ sty' = [pc |-> "off", n |-> sty.n]
  /\ UNCHANGED <<chatVars, sse, poll, vid, swp, storageObjects, generatedPhotos, nextGenId>>

StyleEndpoints == {"photo", "newborn", "wedding", "couple", "video"}

\* style_id of the request body; the empty string when it is missing
StyleIdInputs == {"", "l1", "n1", "nz", "w1"}

\* an image source names nothing, an external URL, or the stored output of
\* an earlier generation of the second user
SourceInputs ==
  {SourceNone, SourceUrl, SourcePath(Path("u2", "generated/newborn", "g1"))}

NextStyles ==
  \/ StyleRequest(StyleEndpoints, Users, StyleIdInputs, BOOLEAN, SourceInputs,
                  {SourceNone, SourceUrl}, {SourceNone, SourceUrl})
  \/ StyleTemplates
  \/ StyleResolve
  \/ StyleSaveInput
  \/ StyleProvider
  \/ StyleVideoCall(BOOLEAN, {EnvUnset}, {<<"g">>})
  \/ PersonSwapCall
  \/ PersonSwapReturns({NoPayload, [isObject |-> TRUE, video_url |-> <<"v">>, videoUrl |-> <<>>]})
  \/ PersonSwapThrows({NullStatus})
  \/ BackgroundSwapCall
  \/ BackgroundSwapReturns({NoPayload, [isObject |-> TRUE, video_url |-> <<"w">>, videoUrl |-> <<>>]})
  \/ BackgroundSwapThrows
  \/ StyleVideoResult
  \/ StyleVideoDownload
  \/ StyleSaveOutput
  \/ StyleRecord
  \/ HistoryDelete(Users, {"g1", "g2"})
  \/ HistoryGet
  \/ HistoryDeleteObject
  \/ HistoryDeleteRecord
  \/ StyleRetire

SpecStyles == Init /\ [][NextStyles]_vars

GenerationEnded == sty.pc = "ended" /\ sty.endpoint \in StyleEndpoints

\* C12: a request to a generation route of /styles that was answered 400 has
\* made no call of a generative provider, written no storage object and
\* written no generatedPhotos record.
C12_Rejected400DidNothing ==
  (GenerationEnded /\ sty.resp = StyResp(400))
    => (sty.providerCalls = 0 /\ sty.writes = <<>> /\ sty.records = <<>>)

\* a wedding request whose style id names no template was answered 400 after
\* the templates were listed
C12_Witness ==
  /\ GenerationEnded
  /\ sty.endpoint = "wedding"
  /\ sty.styleId = "w1"
  /\ sty.first # SourceNone /\ sty.second # SourceNone
  /\ sty.resp = StyResp(400)

\* a request to POST /styles/video/generate was answered 200
VideoAnswered == sty.pc = "ended" /\ sty.endpoint = "video" /\ sty.resp = StyResp(200)

\* the object the video route stores its output under
VideoOutputPath == Path(sty.user, "generated/video", sty.generatedId)

\* C14: POST /styles/video/generate stores the provider's output under
\* users/{userId}/generated/video/ if and only if the provider result has
\* usedFallback = false; with usedFallback = true nothing is written to
\* storage, outputVideoPath is null and outputVideoUrl is the reference URL;
\* in both cases exactly one generatedPhotos record with styleType 'video'
\* and the usedFallback flag is written before the 200.
C14_VideoStoredIffNoFallback ==
  /\ (sty.pc # "off" /\ sty.endpoint = "video")
       => /\ sty.writes \in {<<>>, <<VideoOutputPath>>}
          /\ sty.writes # <<>> => ~sty.usedFallback
          /\ sty.pc # "ended" => sty.records = <<>>
  /\ VideoAnswered
       => /\ sty.usedFallback <=> sty.writes = <<>>
          /\ Len(sty.records) = 1
          /\ sty.records[1] \in generatedPhotos
          /\ sty.records[1].styleType = "video"
          /\ sty.records[1].usedFallback = sty.usedFallback
          /\ IF sty.usedFallback
             THEN /\ sty.records[1].outputVideoPath = NoPath
                  /\ sty.records[1].outputVideoUrl = resolveVideoReferenceUrl(sty.styleId)
             ELSE /\ sty.records[1].outputVideoPath = VideoOutputPath
                  /\ VideoOutputPath \in storageObjects
                  /\ sty.records[1].outputVideoUrl = SignedUrl(VideoOutputPath)

\* a video request that fell back to the reference was answered after an
\* earlier one had its generated video stored
C14_Witness ==
  /\ VideoAnswered
  /\ sty.usedFallback
  /\ sty.writes = <<>>
  /\ \E g \in generatedPhotos :
       g.styleType = "video" /\ ~g.usedFallback /\ g.outputVideoPath \in storageObjects

\* a request to DELETE /styles/history/:id is being served
HistoryServed == sty.pc # "off" /\ sty.endpoint = "history"

\* the records a history request of this user for this id may not touch
OtherRecords(photos) ==
  {g \in photos : g.user # sty.user \/ g.id # sty.generatedId}

\* what one step of a history request does to the stores
HistoryStep ==
  HistoryServed =>
    /\ generatedPhotos' \subseteq generatedPhotos
    /\ OtherRecords(generatedPhotos') = OtherRecords(generatedPhotos)
    /\ sty.pc = "historyGet" =>
         /\ generatedPhotos' = generatedPhotos
         /\ storageObjects' = storageObjects
         /\ IF RecordsOf(sty.user, sty.generatedId) = {}
            THEN sty'.pc = "ended" /\ sty'.resp \in {StyResp(404), StyResp(500)}
            ELSE \/ sty'.pc \in {"deleteObjects", "deleteRecord"}
                 \/ sty'.pc = "ended" /\ sty'.resp = StyResp(500)
    /\ sty.pc = "deleteObjects" =>
         /\ sty'.pc \in {"deleteObjects", "deleteRecord"}
         /\ generatedPhotos' = generatedPhotos
    /\ sty.pc = "deleteRecord" =>
         /\ sty'.pc = "ended"
         /\ \/ /\ sty'.resp = StyResp(200)
               /\ generatedPhotos' = generatedPhotos \ RecordsOf(sty.user, sty.generatedId)
            \/ /\ sty'.resp = StyResp(500)
               /\ generatedPhotos' = generatedPhotos

\* C15: DELETE /styles/history/:id answers 404 and deletes nothing when the
\* user has no record with that id; when the record exists it is deleted and
\* success returned, also when deleting its storage objects failed (only a
\* failure of the record store itself is answered 500); records of other
\* users are never touched.
C15_HistoryDeleteOwnRecordOnly ==
  /\ [][HistoryStep]_vars
  /\ [](HistoryServed =>
          /\ sty.pc \in {"deleteObjects", "deleteRecord"}
               => RecordsOf(sty.user, sty.generatedId) # {}
          /\ (sty.pc = "ended" /\ sty.resp = StyResp(200))
               => RecordsOf(sty.user, sty.generatedId) = {}
          /\ (sty.pc = "ended" /\ sty.resp = StyResp(404))
               => ~sty.deleteFailed /\ sty.toDelete = <<>>)

\* a record was deleted and success returned although a storage delete had
\* failed
C15_Witness ==
  /\ HistoryServed
  /\ sty.pc = "ended"
  /\ sty.resp = StyResp(200)
  /\ sty.deleteFailed
  /\ RecordsOf(sty.user, sty.generatedId) = {}

(***************************************************************************)
(* The reader of the event stream in streamCoachResponse                   *)
(* (geminiService.ts:567-627).  The stream is a sequence of bytes that     *)
(* arrives in chunks; each chunk is decoded, appended to the buffer, and   *)
(* the complete lines of the buffer are handled.  A line stands for the    *)
(* text its payload carries.                                               *)
(***************************************************************************)
\* Bytes the provider's stream carries.
MaxBytes == 4

\* "x" is an ASCII letter, "C5" "9F" the two bytes of one letter outside
\* ASCII
Bytes == {"x", "CR", "LF", "C5", "9F"}

REPLACEMENT == "?"

ByteStreams == UNION {[1..n -> Bytes] : n \in 0..MaxBytes}

RECURSIVE Utf8ToString(_)
\* Buffer.prototype.toString('utf8'): a byte sequence that is not a complete
\* character decodes to U+FFFD
Utf8ToString(bytes) ==
  IF bytes = <<>> THEN <<>>
  ELSE IF Head(bytes) = "C5" /\ Len(bytes) >= 2 /\ bytes[2] = "9F"
       THEN <<"s-cedilla">> \o Utf8ToString(SubSeq(bytes, 3, Len(bytes)))
  ELSE IF Head(bytes) \in {"C5", "9F"}
       THEN <<REPLACEMENT>> \o Utf8ToString(Tail(bytes))
  ELSE <<Head(bytes)>> \o Utf8ToString(Tail(bytes))

RECURSIVE SplitLines(_, _)
\* String.prototype.split(/\r?\n/): current is the line being read
SplitLines(text, current) ==
  IF text = <<>> THEN <<current>>
  ELSE IF Head(text) = "LF"
       THEN <<IF current # <<>> /\ current[Len(current)] = "CR"
              THEN SubSeq(current, 1, Len(current) - 1)
              ELSE current>>
            \o SplitLines(Tail(text), <<>>)
  ELSE SplitLines(Tail(text), Append(current, Head(text)))

RECURSIVE TrimLine(_)
\* String.prototype.trim on a text with carriage returns
TrimLine(t) ==
  IF t = <<>> THEN t
  ELSE IF Head(t) \in {" ", "CR", "LF"} THEN TrimLine(Tail(t))
  ELSE IF t[Len(t)] \in {" ", "CR", "LF"} THEN TrimLine(SubSeq(t, 1, Len(t) - 1))
  ELSE t

\* the closure of the promise: buffer, fullText, the deltas given to onDelta
\* and the lines given to handleLine
FreshReader == [buffer |-> <<>>, fullText |-> <<>>, deltas |-> <<>>, handled |-> <<>>]

\* geminiService.ts:572-608 handleLine
handleLine(reader, line) ==
  LET candidateText == TrimLine(line)
      delta == StreamDelta(reader.fullText, candidateText)
      seen == [reader EXCEPT !.handled = Append(@, line)]
  IN IF candidateText = <<>> \/ delta = <<>> THEN seen
     ELSE [seen EXCEPT !.fullText = @ \o delta, !.deltas = Append(@, delta)]

RECURSIVE HandleLines(_, _)
\* lines.forEach(handleLine)
HandleLines(reader, lines) ==
  IF lines = <<>> THEN reader
  ELSE HandleLines(handleLine(reader, Head(lines)), Tail(lines))

\* geminiService.ts:610-615: stream.on('data')
OnData(reader, chunk) ==
  LET lines == SplitLines(reader.buffer \o Utf8ToString(chunk), <<>>)
  IN [HandleLines(reader, SubSeq(lines, 1, Len(lines) - 1))
        EXCEPT !.buffer = lines[Len(lines)]]

\* geminiService.ts:617-622: stream.on('end'); the text the promise resolves to
OnEnd(reader) ==
  LET last == IF TrimLine(reader.buffer) # <<>> THEN handleLine(reader, reader.buffer)
              ELSE reader
  IN [reader |-> last, resolved |-> TrimLine(last.fullText)]

\* the response of the provider arrives: a stream of bytes
SseOpen(streams) ==
  /\ sse.pc = "off"
  /\ \E bytes \in streams :
       sse' = [pc |-> "open", whole |-> bytes, rest |-> bytes, reader |-> FreshReader,
               resolved |-> <<>>]
  /\ UNCHANGED <<chatVars, poll, vid, swp, styleVars>>

\* one 'data' event: the next chunk of the stream, of any length
SseData ==
  /\ sse.pc = "open"
  /\ \E n \in 1..Len(sse.rest) :
       sse' = [sse EXCEPT !.reader = OnData(@, SubSeq(sse.rest, 1, n)),
                          !.rest = SubSeq(@, n + 1, Len(@))]
  /\ UNCHANGED <<chatVars, poll, vid, swp, styleVars>>

\* the 'end' event, after the last chunk
SseEnd ==
  /\ sse.pc = "open"
  /\ sse.rest = <<>>
  /\ sse' = [sse EXCEPT !.pc = "ended", !.reader = OnEnd(@).reader,
                        !.resolved = OnEnd(sse.reader).resolved]
  /\ UNCHANGED <<chatVars, poll, vid, swp, styleVars>>

\* the 'error' event: the promise is rejected
SseError ==
  /\ sse.pc = "open"
  /\ sse' = [sse EXCEPT !.pc = "rejected"]
  /\ UNCHANGED <<chatVars, poll, vid, swp, styleVars>>

NextSse ==
  \/ SseOpen(ByteStreams)
  \/ SseData
  \/ SseEnd
  \/ SseError

SpecSse == Init /\ [][NextSse]_vars

\* the reader that received the whole stream as one chunk
WholeStreamReader == OnEnd(OnData(FreshReader, sse.whole))

\* C17 (as claimed): the reader of streamCoachResponse is independent of how
\* the stream is split into chunks: it gives the same deltas to onDelta and
\* resolves to the same text, handles every line exactly once, and handles
\* an unterminated last line at the end.
C17_IndependentOfChunkSplitting ==
  sse.pc = "ended" =>
    /\ sse.reader.deltas = WholeStreamReader.reader.deltas
    /\ sse.resolved = WholeStreamReader.resolved
    /\ sse.reader.handled = WholeStreamReader.reader.handled

(***************************************************************************)
(* SpecHistory: newborn and video generations and history deletes, after   *)
(* the second user has generated a newborn photo from an uploaded file.    *)
(***************************************************************************)
InitStored ==
  /\ ChatInit
  /\ poll = Off
  /\ vid = Off
  /\ swp = Off
  /\ sse = Off
  /\ storageObjects = {Path("u2", "uploads/newborn", "t0"),
                       Path("u2", "generated/newborn", "g1")}
  /\ generatedPhotos =
       {[user |-> "u2", id |-> "g1", styleType |-> "yenidogan",
         outputImagePath |-> Path("u2", "generated/newborn", "g1"),
         outputVideoPath |-> NoPath, outputVideoUrl |-> NoUrl,
         inputImagePath |-> Path("u2", "uploads/newborn", "t0"),
         usedFallback |-> FALSE]}
  /\ nextGenId = 2
  /\ sty = [pc |-> "off", n |-> 0]

NextHistory ==
  \/ StyleRequest({"newborn", "video"}, Users, {"n1"}, BOOLEAN, SourceInputs,
                  {SourceNone}, {SourceNone})
  \/ StyleResolve
  \/ StyleSaveInput
  \/ StyleProvider
  \/ StyleVideoCall(BOOLEAN, {EnvUnset}, {<<"g">>})
  \/ PersonSwapCall
  \/ PersonSwapReturns({NoPayload, [isObject |-> TRUE, video_url |-> <<"v">>, videoUrl |-> <<>>]})
  \/ PersonSwapThrows({NullStatus})
  \/ BackgroundSwapCall
  \/ BackgroundSwapReturns({NoPayload, [isObject |-> TRUE, video_url |-> <<"w">>, videoUrl |-> <<>>]})
  \/ BackgroundSwapThrows
  \/ StyleVideoResult
  \/ StyleVideoDownload
  \/ StyleSaveOutput
  \/ StyleRecord
  \/ HistoryDelete(Users, {"g1", "g2"})
  \/ HistoryGet
  \/ HistoryDeleteObject
  \/ HistoryDeleteRecord
  \/ StyleRetire

SpecHistory == InitStored /\ [][NextHistory]_vars

\* C23 (as claimed): every storage object that DELETE /styles/history/:id
\* deletes lies under users/{userId}/ of the authenticated user, whatever
\* newborn and video generation requests created the deleted record.
C23_DeletesOnlyOwnObjects ==
  [][HistoryServed =>
       \A path \in storageObjects \ storageObjects' : path.user = sty.user]_vars

(***************************************************************************)
(* SpecRace: two requests in flight at once on the session s1 of user u1,  *)
(* which holds one exchange: chat requests (streaming or not) and deletes. *)
(* The steps of the two requests interleave at every await of the code.    *)
(***************************************************************************)
InitShared ==
  /\ sessions = [s \in SessionIds |->
                  IF s = "s1" THEN SessionDoc("u1", NoTitle, "chat") ELSE NoDoc]
  /\ messages = <<MessageDoc(1, "s1", "user", <<"merhaba">>, "none"),
                  MessageDoc(2, "s1", "assistant", <<"a">>, "none")>>
  /\ usersInfo = {"u1"}
  /\ nextId = 3
  /\ nextAuto = 2
  /\ reqCount = 0
  /\ pc = [p \in Procs |-> "idle"]
  /\ req = [p \in Procs |-> NoReq]
  /\ loc = [p \in Procs |-> LocInit]
  /\ events = [p \in Procs |-> <<>>]
  /\ oplog = [p \in Procs |-> <<>>]
  /\ resp = [p \in Procs |-> NoResp]
  /\ OthersOff

NextRace ==
  \E p \in Procs :
    \/ PostChat(p, {"u1"}, {"s1"}, {<<"merhaba">>}, BOOLEAN, {NoImage})
    \/ DeleteRequest(p, {"u1"}, {"s1"})
    \/ EnsureUserInfo(p)
    \/ WriteUserMessage(p)
    \/ ReadRecent(p)
    \/ ChatReply(p)
    \/ ProviderReturn(p, StoreReplyTexts)
    \/ WriteAssistant(p)
    \/ TouchSession(p)
    \/ ChatRespond(p)
    \/ StreamSetup(p)
    \/ OpenStream(p)
    \/ StreamLine(p, StoreStreamLines)
    \/ StreamEnd(p)
    \/ StreamError(p)
    \/ CatchStream(p)
    \/ Fallback(p, StoreReplyTexts)
    \/ FinalizeWrite(p)
    \/ FinalizeTouch(p)
    \/ FinalizeSummary(p)
    \/ SessionGet(p)
    \/ DeleteQuery(p)
    \/ DeleteCommit(p)
    \/ Retire(p)

SpecRace == InitShared /\ [][NextRace]_vars

\* deleteChatSession has returned deleted = true for session s
DeleteReturned(s) ==
  \E p \in Procs : /\ req[p].kind = "delete"
                   /\ req[p].sessionId = s
                   /\ pc[p] = "done"
                   /\ resp[p].status = 200

\* no session document with id s and no message of session s is stored
Gone(s) == sessions[s] = NoDoc /\ SessionMessages(s) = <<>>

\* C24 (as claimed): once deleteChatSession has returned deleted = true for a
\* session, no chat_sessions document with that id and no chat_messages
\* document with that session_id exists, and none appears later, also when a
\* chat request for the same session is in flight while the delete runs.
\* The delete stays returned until its slot is retired, while the other
\* request goes on, so the states after the return are covered as well.
C24_DeletedSessionStaysGone ==
  \A s \in {"s1"} : DeleteReturned(s) => Gone(s)

(***************************************************************************)
(* SpecShare: two chat requests in flight at once on the session s1 of     *)
(* user u1, with and without an image, streaming or not.                   *)
(***************************************************************************)
NextShare ==
  \E p \in Procs :
    \/ PostChat(p, {"u1"}, {"s1"}, {<<"merhaba">>}, BOOLEAN, {NoImage, ValidImage})
    \/ EnsureUserInfo(p)
    \/ WriteUserMessage(p)
    \/ ReadRecent(p)
    \/ ChatReply(p)
    \/ ProviderReturn(p, StoreReplyTexts)
    \/ WriteAssistant(p)
    \/ TouchSession(p)
    \/ ChatRespond(p)
    \/ StreamSetup(p)
    \/ OpenStream(p)
    \/ StreamLine(p, StoreStreamLines)
    \/ StreamEnd(p)
    \/ StreamError(p)
    \/ CatchStream(p)
    \/ Fallback(p, StoreReplyTexts)
    \/ FinalizeWrite(p)
    \/ FinalizeTouch(p)
    \/ FinalizeSummary(p)
    \/ Retire(p)

SpecShare == InitShared /\ [][NextShare]_vars

\* the request of p has sent contents to the provider
ContentsSent(p) ==
  \E i \in 1..Len(oplog[p]) : oplog[p][i] \in {"providerCall", "providerStream"}

\* the inline data parts of one entry of the contents
InlineParts(entry) ==
  {j \in 1..Len(entry.parts) : entry.parts[j].kind = "inlineData"}

\* the entries of the contents p has sent that carry an image
ImageEntries(p) ==
  {i \in 1..Len(loc[p].contents) : InlineParts(loc[p].contents[i]) # {}}

\* C25 (as claimed): when a chat request carries an image, the contents sent
\* to the provider hold that image exactly once, in the entry of the request's
\* own user message, which is the last entry of the history, whatever other
\* chat requests write to the same session meanwhile.
C25_ImageOnOwnUserMessage ==
  \A p \in Procs :
    (req[p].kind = "chat" /\ req[p].image # NoImage /\ ContentsSent(p)) =>
      LET contents == loc[p].contents
          last == Len(contents)
      IN /\ ImageEntries(p) = {last}
         /\ last >= 1
         /\ loc[p].historyIds[last] = loc[p].userMsgId
         /\ Cardinality(InlineParts(contents[last])) = 1
         /\ contents[last].parts[Len(contents[last].parts)].mimeType = req[p].image.mime
====
